---- MODULE Spec2Model ----
(***************************************************************************)
(* Model of the todo service's two stateful cores:                         *)
(*   - the todo collection and the handlers of server/routes/todos.js      *)
(*     together with the ordering engine of server/utils/todoOrdering.js;  *)
(*   - the refresh-token list of a user and the handlers of                *)
(*     server/routes/auth.js.                                              *)
(* Every await of a handler is a suspension point: a handler is a          *)
(* sequence of steps, one per store round-trip, and the steps of the       *)
(* requests in flight interleave.  A transaction (session.withTransaction) *)
(* reads from the snapshot taken at its first read, commits all its writes *)
(* at once, and is aborted and retried when a document it writes was       *)
(* written by somebody else after the snapshot (write conflict).           *)
(***************************************************************************)
EXTENDS Integers, Sequences, FiniteSets, TLC

\* ------------------------------------------------------------------ bounds
MaxTodos == 3          \* todos ever created (ids are never reused)
MaxBulk == 2           \* entries of one bulk-update request
MaxOrd == 2            \* largest order value a bulk-update request supplies
MaxTime == 1           \* the clock, in seconds since the server started
MaxSweeps == 2         \* runs of the token-expiration timer
MaxDate == 2           \* days a due date or a reminder date can name
MaxOwned == 2          \* todos ever created while two users call every endpoint

\* login and /refresh keep the last 5 refresh tokens of a user
RefreshLife == 604800  \* seconds a refresh token lives (expiresIn "7d")
KeepTokens == 5
\* the register schema: password: Joi.string().min(6).max(128).required()
PasswordMin == 6
PasswordMax == 128
\* handleTokenExpiration checks the connected sockets every 60000 ms; the
\* clock of the model counts seconds, as socket.tokenExp and decoded.exp do
SweepMillis == 60000
SweepInterval == SweepMillis \div 1000

Procs == {"r1", "r2"}  \* request slots: requests in flight at the same time
Users == {"u1", "u2"}
Cats == {"general", "work"}

TodoIds == 1..MaxTodos
Positions == 0..(MaxTodos + 1)
Times == 0..MaxTime
Conns == {"c1", "c2", "c3"}   \* socket connections (engine.io sessions)
\* the exp claims of the access tokens in circulation: expired early,
\* right before a run of the timer, at it, right after it
Expiries == {1, SweepInterval - 1, SweepInterval, SweepInterval + 1}

Range(s) == {s[i] : i \in 1..Len(s)}
Injective(s) == \A i, j \in 1..Len(s) : i # j => s[i] # s[j]
SeqsUpTo(S, n) == UNION {[1..k -> S] : k \in 0..n}
\* the lengths of the passwords a client sends to /register (0: none)
PasswordLengths == {0, PasswordMin - 1, PasswordMin}

\* the request bodies: id lists (with a repeated id among the short ones)
\* and bulk-update lists (of different todos, by ascending id); the data of
\* an update are an order and, in OwnerBodies, a userId as well
ReorderBodies == {ids \in SeqsUpTo(TodoIds, MaxTodos) : Len(ids) <= 2 \/ Injective(ids)}
BulkBodies ==
  {ups \in SeqsUpTo([id : TodoIds, order : 1..MaxOrd, userId : {"none"}], MaxBulk) :
     ups # <<>> /\ \A i, j \in 1..Len(ups) : i < j => ups[i].id < ups[j].id}
OwnerBodies == {<<up>> : up \in [id : TodoIds, order : {1}, userId : Users]}

\* ------------------------------------------------------------------- state
VARIABLES
  todos,     \* the todos collection: id -> document (NoTodo when absent)
  nextId,    \* the next fresh _id
  pc,        \* per request slot: where its handler is suspended
  req,       \* per request slot: the request, what the handler read, the status
  plan,      \* per request slot: the bulkWrite operations still to apply
  dirty,     \* per request slot: a document its transaction writes was written
             \* by somebody else after its snapshot
  now,       \* the clock: the second jsonwebtoken stamps a token with (iat)
  registered,      \* the users collection: the users that exist
  refreshTokens,   \* per user: the stored refreshTokens array
  issued,    \* the refresh tokens signed so far (the ones that verify)
  exchanged, \* the tokens a /refresh has taken out of a stored list and
             \* that have not been stored again since
  revoked,   \* the tokens signed before the last reuse-detection wipe and
             \* not signed again since
  lastMove,  \* the moveTodoToPosition call that has just succeeded, with the
             \* order it left its todo with, while no other request has started
             \* (again: it was itself made right after such a call, for the
             \* same todo and with the order that call left; moved: that
             \* call, or this one, changed the store)
  inactive,  \* the users whose isActive is false (deactivated accounts)
  conn,      \* per socket connection: its state and what the server has
             \* attached to the socket
  received,  \* the socket event the last step has handled
  delivered, \* the events the last step has emitted: (connection, event)
  nextSweep  \* the second the token-expiration timer fires next

todoVars == <<todos, nextId, plan, lastMove>>
authVars == <<now, registered, refreshTokens, issued, exchanged, revoked>>
liveVars == <<inactive, conn, received, delivered, nextSweep>>
vars == <<todos, nextId, pc, req, plan, dirty, lastMove,
          now, registered, refreshTokens, issued, exchanged, revoked,
          inactive, conn, received, delivered, nextSweep>>

\* a todo document; completedAt and archivedAt: whether the timestamp is
\* set; dueDate and reminderDate: 0 for none, else a day in the future
NoTodo == [userId |-> "none", category |-> "none", order |-> 0, isArchived |-> FALSE,
           archivedAt |-> FALSE, completed |-> FALSE, completedAt |-> FALSE,
           dueDate |-> 0, reminderDate |-> 0]
NoStore == [t \in TodoIds |-> NoTodo]
\* a refresh token is decided by its payload {userId, type: "refresh", iat, exp}
\* and the secret: generateTokens signs the same string for the same user
\* in the same second
NoToken == [uid |-> "none", iat |-> 0]
\* an access token is decided by its payload {userId, iat, exp} and by the
\* secret it was signed with (signed: the server's JWT_SECRET)
NoAccess == [uid |-> "none", exp |-> 0, signed |-> FALSE]
AccessTokens == [uid : Users, exp : Expiries, signed : BOOLEAN]

NoReq == [op |-> "none", uid |-> "none", tid |-> 0, ids |-> <<>>, pos |-> 0,
          cat |-> "none", arch |-> FALSE, ord |-> 0, retried |-> FALSE, status |-> 0,
          tok |-> NoToken, new |-> NoToken, before |-> <<>>, seen |-> <<>>,
          reused |-> FALSE, cleared |-> FALSE, bearer |-> NoAccess, message |-> "none",
          found |-> {}, listed |-> {}, ups |-> <<>>, len |-> 0,
          doc |-> NoTodo, mod |-> {}]

\* a socket: closed, in the handshake (authenticateSocket awaits the user)
\* or connected; userId and tokenExp are the properties authenticateSocket
\* attaches, room the room it has joined, handlers whether the event
\* handlers are registered, notices the token_expired events it was sent,
\* error the message its handshake was refused with
NoConn == [state |-> "closed", tok |-> NoAccess, userId |-> "none", tokenExp |-> 0,
           room |-> <<>>, handlers |-> FALSE, notices |-> 0, error |-> "none"]

\* a socket event: the connection it came from, its name, the userId of
\* its payload ("none": the payload has none) and the token of its payload
NoEvent == [from |-> "none", event |-> "none", owner |-> "none", tok |-> NoAccess]
Event(c, e, o, t) == [from |-> c, event |-> e, owner |-> o, tok |-> t]

NoMove == [uid |-> "none", tid |-> 0, pos |-> 0, again |-> FALSE, moved |-> FALSE]

Exists(s, t) == t \in TodoIds /\ s[t] # NoTodo
Owned(s, t, u) == Exists(s, t) /\ s[t].userId = u

\* the (owner, category, archived=false) partition
Partition(s, u, c) ==
  {t \in TodoIds : Owned(s, t, u) /\ s[t].category = c /\ ~s[t].isArchived}

\* ----------------------------------------------------- todoOrdering.js

\* getNextOrderValue: findOne(filter).sort({order: -1}), then order + 1 or 1
MaxOrderOf(s, S) == CHOOSE m \in {s[t].order : t \in S} : \A t \in S : s[t].order <= m
\* (variant: the filter does not exclude the archived todos)
getNextOrderValueAnyArchived(s, u, c) ==
  LET S == {t \in TodoIds : Owned(s, t, u) /\ s[t].category = c}
  IN  IF S = {} THEN 1 ELSE MaxOrderOf(s, S) + 1
getNextOrderValue(s, u, c) ==
  IF Partition(s, u, c) = {} THEN 1 ELSE MaxOrderOf(s, Partition(s, u, c)) + 1

\* the results a find(...).sort({order: 1}) may return for the documents S:
\* every arrangement of S in non-decreasing order (ties are not specified)
SortedByOrder(s, S) ==
  {q \in [1..Cardinality(S) -> S] :
     /\ \A i, j \in 1..Cardinality(S) : i # j => q[i] # q[j]
     /\ \A i, j \in 1..Cardinality(S) : i < j => s[q[i]].order <= s[q[j]].order}

\* Array.prototype.filter((t) => !t._id.equals(todoId))
Without(q, t) == SelectSeq(q, LAMBDA x : x # t)

\* Array.prototype.splice(start, 0, item) with start >= 0: a start beyond
\* the length is clamped to the length
Splice(q, start, item) ==
  LET at == IF start > Len(q) THEN Len(q) ELSE start
  IN  SubSeq(q, 1, at) \o <<item>> \o SubSeq(q, at + 1, Len(q))

\* one updateOne of a bulkWrite: filter {_id, userId?}, update {order}
WriteOp(t, u, o) == [id |-> t, uid |-> u, order |-> o, userId |-> "none"]
\* one updateOne of PATCH /bulk-update: filter {_id, userId}, update
\* {$set: update.data}, data being what the client has sent (w: its userId,
\* "none" when it has none)
SetOp(t, u, o, w) == [id |-> t, uid |-> u, order |-> o, userId |-> w]

\* reorderTodos: the validation of lines 21-31
ReorderMatches(s, u, ids) == {t \in Range(ids) : Owned(s, t, u)}
\* (variant: it is enough that every listed id is a todo of the user)
ReorderValidEachOwned(s, u, ids) == Range(ids) \subseteq ReorderMatches(s, u, ids)
ReorderValid(s, u, ids) == Cardinality(ReorderMatches(s, u, ids)) = Len(ids)

\* reorderTodos: the bulk operations of lines 34-39
\* (variant: the 0-based index as the order)
ReorderOpsFromZero(u, ids) == [i \in 1..Len(ids) |-> WriteOp(ids[i], u, i - 1)]
ReorderOps(u, ids) == [i \in 1..Len(ids) |-> WriteOp(ids[i], u, i)]

\* moveTodoToPosition: Todo.findOne({_id: todoId, userId}) finds the todo
\* (variant: the filter is {_id: todoId} alone)
MoveFindsById(s, t, u) == Exists(s, t)
MoveFinds(s, t, u) == Owned(s, t, u)

\* moveTodoToPosition: the early return of lines 86-90
\* (variant: no early return)
MoveNeverNoop(s, t, pos) == FALSE
\* (variant: the current position is the place of the todo in its sorted
\* partition, not its order value)
MoveIsNoopAtRank(s, t, pos) ==
  LET S == Partition(s, s[t].userId, s[t].category)
  IN  Cardinality({x \in S : s[x].order < s[t].order}) + 1 = pos
MoveIsNoop(s, t, pos) == s[t].order = pos

\* moveTodoToPosition: lines 93-113 for one result of the sorted find
\* (variant: the splice at newPosition instead of newPosition - 1)
MoveOpsAtPosition(sorted, t, pos) ==
  LET q == Splice(Without(sorted, t), pos, t)
  IN  [i \in 1..Len(q) |-> WriteOp(q[i], "any", i)]
MoveOps(sorted, t, pos) ==
  LET q == Splice(Without(sorted, t), pos - 1, t)
  IN  [i \in 1..Len(q) |-> WriteOp(q[i], "any", i)]

\* how many operations of a bulkWrite become visible in one step: all of
\* them when it runs in the transaction's session, one otherwise
\* (variant: the session's writes become visible one by one)
TxnBatchPerDocument(ops) == 1
TxnBatch(ops) == Len(ops)
PlainBatch(ops) == 1

\* ------------------------------------------------------------ the store

\* an updateOne writes the document its filter matches
OpMatches(s, op) == Exists(s, op.id) /\ (op.uid = "any" \/ s[op.id].userId = op.uid)
Written(s, ops) == {ops[i].id : i \in {j \in 1..Len(ops) : OpMatches(s, ops[j])}}

ApplyOp(s, op) ==
  IF OpMatches(s, op)
  THEN [s EXCEPT ![op.id].order = op.order,
                 ![op.id].userId = IF op.userId = "none" THEN @ ELSE op.userId]
  ELSE s

RECURSIVE ApplyOps(_, _)
ApplyOps(s, ops) ==
  IF ops = <<>> THEN s ELSE ApplyOps(ApplyOp(s, Head(ops)), Tail(ops))

OpIds(ops) == {ops[i].id : i \in 1..Len(ops)}

\* requests whose transaction has taken its snapshot and not yet committed
InTxn(q) == pc[q] \in {"reorderWrite", "moveWrite"}

\* documents D were written by request p: every other open transaction
\* that writes one of them now has a write conflict
Touch(p, D) ==
  dirty' = [q \in Procs |->
              IF q # p /\ InTxn(q) /\ OpIds(plan[q]) \cap D # {} THEN TRUE ELSE dirty[q]]

\* the handler of slot p starts for the user u: the request has come in
\* or, behind authenticateToken, the middleware has called next()
Arrives(p, u) == pc[p] = "idle" \/ (pc[p] = "authed" /\ req[p].uid = u)

\* the handler of slot p has sent its response: the slot is free again
Respond(p) ==
  /\ pc' = [pc EXCEPT ![p] = "idle"]
  /\ req' = [req EXCEPT ![p] = NoReq]
  /\ plan' = [plan EXCEPT ![p] = <<>>]

\* the handler of slot p goes on at `at`, having received request r
Goto(p, at, r) ==
  /\ pc' = [pc EXCEPT ![p] = at]
  /\ req' = [req EXCEPT ![p] = r]

\* no todo, no request in flight, no socket; the timer was started
InitRest ==
  /\ todos = NoStore
  /\ nextId = 1
  /\ pc = [p \in Procs |-> "idle"]
  /\ req = [p \in Procs |-> NoReq]
  /\ plan = [p \in Procs |-> <<>>]
  /\ dirty = [p \in Procs |-> FALSE]
  /\ lastMove = NoMove
  /\ now = 0
  /\ refreshTokens = [u \in Users |-> <<>>]
  /\ exchanged = {}
  /\ revoked = {}
  /\ inactive = {}
  /\ conn = [c \in Conns |-> NoConn]
  /\ received = NoEvent
  /\ delivered = {}
  /\ nextSweep = SweepInterval

\* the server has started over an empty database
Init ==
  /\ InitRest
  /\ registered = {}
  /\ issued = {}

\* the server after the registration and the logout, in its first second,
\* of the first or of both users
InitLive ==
  /\ InitRest
  /\ registered \in {{"u1"}, Users}
  /\ issued = {[uid |-> u, iat |-> 0] : u \in registered}

\* ------------------------------------------------------- routes/todos.js

\* POST /  (first await: getNextOrderValue; tid: the documents the read
\* could see are the ones saved before it, those with an _id below tid)
PendingCreates == Cardinality({q \in Procs : pc[q] = "createSave"})
CreateRead(p, u, c) ==
  /\ Arrives(p, u)
  /\ nextId + PendingCreates <= MaxTodos
  /\ Goto(p, "createSave", [NoReq EXCEPT !.op = "create", !.uid = u, !.cat = c,
                                         !.tid = nextId,
                                         !.ord = getNextOrderValue(todos, u, c)])
  /\ UNCHANGED <<todos, nextId, plan, dirty>>
  /\ lastMove' = NoMove
  /\ UNCHANGED <<authVars, liveVars>>

\* POST /  (second await: todo.save(), then the response)
CreateSave(p) ==
  /\ pc[p] = "createSave"
  /\ todos' = [todos EXCEPT ![nextId] =
                 [NoTodo EXCEPT !.userId = req[p].uid, !.category = req[p].cat,
                                !.order = req[p].ord]]
  /\ nextId' = nextId + 1
  /\ Respond(p)
  /\ UNCHANGED dirty
  /\ lastMove' = NoMove
  /\ UNCHANGED <<authVars, liveVars>>

\* a request body: a key is absent (<<>>) or carries one value
NoBody == [category |-> <<>>, completed |-> <<>>, isArchived |-> <<>>,
           dueDate |-> <<>>, reminderDate |-> <<>>]
CategoryBody(c) == [NoBody EXCEPT !.category = <<c>>]

\* Object.keys(req.body).forEach((key) => { todo[key] = req.body[key] })
Assign(doc, b) ==
  [doc EXCEPT !.category = IF b.category = <<>> THEN @ ELSE b.category[1],
              !.completed = IF b.completed = <<>> THEN @ ELSE b.completed[1],
              !.isArchived = IF b.isArchived = <<>> THEN @ ELSE b.isArchived[1],
              !.dueDate = IF b.dueDate = <<>> THEN @ ELSE b.dueDate[1],
              !.reminderDate = IF b.reminderDate = <<>> THEN @ ELSE b.reminderDate[1]]

\* the paths of the document whose value differs from the one read
Modified(old, doc) == {f \in DOMAIN old : doc[f] # old[f]}

\* todoSchema.pre("save"): a timestamp is set with its flag and unset
\* without it, when the flag is a modified path
preSave(old, doc) ==
  [doc EXCEPT !.completedAt = IF doc.completed # old.completed THEN doc.completed ELSE @,
              !.archivedAt = IF doc.isArchived # old.isArchived THEN doc.isArchived ELSE @]

\* customValidations.validateReminderDate: looks at the body alone
validateReminderDate(b) ==
  ~( /\ b.reminderDate # <<>> /\ b.dueDate # <<>>
     /\ b.reminderDate[1] # 0 /\ b.dueDate[1] # 0
     /\ b.reminderDate[1] > b.dueDate[1] )

\* the validators of the schema, run by save() on the modified paths (the
\* validator of dueDate accepts every day in the future)
schemaValid(doc, mod) ==
  "reminderDate" \in mod
    => (doc.reminderDate = 0 \/ doc.dueDate = 0 \/ doc.reminderDate <= doc.dueDate)

\* PUT /:id  (validateReminderDate; first await: findOne; then the
\* assignment of the body's fields: a path is modified only when its value
\* differs from the one read)
UpdateFind(p, u, t, b) ==
  /\ pc[p] = "idle"
  /\ LET doc == preSave(todos[t], Assign(todos[t], b))
     IN  IF validateReminderDate(b) /\ Owned(todos, t, u) /\ Modified(todos[t], doc) # {}
         THEN /\ Goto(p, "updateSave",
                      [NoReq EXCEPT !.op = "update", !.uid = u, !.tid = t,
                                    !.cat = IF b.category = <<>> THEN "none" ELSE doc.category,
                                    !.doc = doc, !.mod = Modified(todos[t], doc)])
              /\ UNCHANGED plan
         ELSE Respond(p)
  /\ UNCHANGED <<todos, nextId, dirty>>
  /\ lastMove' = NoMove
  /\ UNCHANGED <<authVars, liveVars>>

\* PATCH /:id/toggle  (first await: findOne; todo.completed = !todo.completed)
ToggleFind(p, u, t) ==
  /\ pc[p] = "idle"
  /\ LET doc == preSave(todos[t], [todos[t] EXCEPT !.completed = ~@])
     IN  IF Owned(todos, t, u)
         THEN /\ Goto(p, "updateSave",
                      [NoReq EXCEPT !.op = "toggle", !.uid = u, !.tid = t,
                                    !.doc = doc, !.mod = Modified(todos[t], doc)])
              /\ UNCHANGED plan
         ELSE Respond(p)
  /\ UNCHANGED <<todos, nextId, dirty>>
  /\ lastMove' = NoMove
  /\ UNCHANGED <<authVars, liveVars>>

\* PUT /:id, PATCH /:id/toggle  (second await: todo.save() validates the
\* modified paths and writes them by _id; it fails when the document is
\* gone)
UpdateSave(p) ==
  /\ pc[p] = "updateSave"
  /\ IF Exists(todos, req[p].tid) /\ schemaValid(req[p].doc, req[p].mod)
     THEN /\ todos' = [todos EXCEPT ![req[p].tid] =
                         [f \in DOMAIN @ |-> IF f \in req[p].mod THEN req[p].doc[f] ELSE @[f]]]
          /\ Touch(p, {req[p].tid})
     ELSE UNCHANGED <<todos, dirty>>
  /\ Respond(p)
  /\ UNCHANGED nextId
  /\ lastMove' = NoMove
  /\ UNCHANGED <<authVars, liveVars>>

\* PATCH /bulk-update with one update whose data names flags and dates:
\* updateOne { filter: { _id, userId }, update: { $set: data } }, neither
\* validators nor the pre("save") hook run
BulkSet(p, u, t, d) ==
  /\ pc[p] = "idle"
  /\ IF Owned(todos, t, u)
     THEN /\ todos' = [todos EXCEPT ![t] = Assign(@, d)]
          /\ Touch(p, {t})
     ELSE UNCHANGED <<todos, dirty>>
  /\ Respond(p)
  /\ UNCHANGED nextId
  /\ lastMove' = NoMove
  /\ UNCHANGED <<authVars, liveVars>>

\* PATCH /:id/archive  (first await: findOne)
ArchiveFind(p, u, t, a) ==
  /\ pc[p] = "idle"
  /\ IF Owned(todos, t, u) /\ todos[t].isArchived # a
     THEN /\ Goto(p, "archiveSave", [NoReq EXCEPT !.op = "archive", !.uid = u, !.tid = t, !.arch = a])
          /\ UNCHANGED plan
     ELSE Respond(p)
  /\ UNCHANGED <<todos, nextId, dirty>>
  /\ lastMove' = NoMove
  /\ UNCHANGED <<authVars, liveVars>>

\* PATCH /:id/archive  (second await: todo.save(); its pre("save") hook
\* sets archivedAt with the flag and unsets it without)
ArchiveSave(p) ==
  /\ pc[p] = "archiveSave"
  /\ IF Exists(todos, req[p].tid)
     THEN /\ todos' = [todos EXCEPT ![req[p].tid].isArchived = req[p].arch,
                                     ![req[p].tid].archivedAt = req[p].arch]
          /\ Touch(p, {req[p].tid})
     ELSE UNCHANGED <<todos, dirty>>
  /\ Respond(p)
  /\ UNCHANGED nextId
  /\ lastMove' = NoMove
  /\ UNCHANGED <<authVars, liveVars>>

\* DELETE /:id  (findOneAndDelete is one atomic store operation)
Delete(p, u, t) ==
  /\ Arrives(p, u)
  /\ IF Owned(todos, t, u)
     THEN /\ todos' = [todos EXCEPT ![t] = NoTodo]
          /\ Touch(p, {t})
     ELSE UNCHANGED <<todos, dirty>>
  /\ Respond(p)
  /\ UNCHANGED nextId
  /\ lastMove' = NoMove
  /\ UNCHANGED <<authVars, liveVars>>

\* DELETE /  (deleteMany over {_id: {$in: ids}, userId}; an empty list is
\* answered 400); the response stays in the slot until the client has taken it
BulkDelete(p, u, S) ==
  /\ pc[p] = "idle"
  /\ LET D == {t \in S : Owned(todos, t, u)}
     IN  /\ todos' = [t \in TodoIds |-> IF t \in D THEN NoTodo ELSE todos[t]]
         /\ Touch(p, D)
  /\ Goto(p, "replied", [NoReq EXCEPT !.op = "bulkDelete", !.uid = u, !.listed = S,
                                      !.status = IF S = {} THEN 400 ELSE 200])
  /\ UNCHANGED plan
  /\ UNCHANGED nextId
  /\ lastMove' = NoMove
  /\ UNCHANGED <<authVars, liveVars>>

\* GET /:id  (findOne({_id, userId}); 404 when it finds nothing); the
\* response stays in the slot until the client has taken it
GetTodo(p, u, t) ==
  /\ pc[p] = "idle"
  /\ Goto(p, "replied", [NoReq EXCEPT !.op = "get", !.uid = u, !.tid = t,
                                      !.found = {x \in {t} : Owned(todos, x, u)},
                                      !.status = IF Owned(todos, t, u) THEN 200 ELSE 404])
  /\ UNCHANGED <<todos, nextId, plan, dirty>>
  /\ lastMove' = NoMove
  /\ UNCHANGED <<authVars, liveVars>>

\* GET /  (find over {userId, isArchived, category?}: the category "all"
\* leaves the category out of the filter)
ListTodos(p, u, c, a) ==
  /\ pc[p] = "idle"
  /\ Goto(p, "replied",
          [NoReq EXCEPT !.op = "list", !.uid = u, !.cat = c, !.arch = a, !.status = 200,
                        !.found = {t \in TodoIds : /\ Owned(todos, t, u)
                                                  /\ todos[t].isArchived = a
                                                  /\ c \in {"all", todos[t].category}}])
  /\ UNCHANGED <<todos, nextId, plan, dirty>>
  /\ lastMove' = NoMove
  /\ UNCHANGED <<authVars, liveVars>>

\* GET /export/data  (find({userId}))
ExportTodos(p, u) ==
  /\ pc[p] = "idle"
  /\ Goto(p, "replied", [NoReq EXCEPT !.op = "export", !.uid = u, !.status = 200,
                                      !.found = {t \in TodoIds : Owned(todos, t, u)}])
  /\ UNCHANGED <<todos, nextId, plan, dirty>>
  /\ lastMove' = NoMove
  /\ UNCHANGED <<authVars, liveVars>>

\* the client has taken the response of a read, a bulk delete, a logout
\* or a refused registration
Replied(p) ==
  /\ pc[p] = "replied"
  /\ Respond(p)
  /\ UNCHANGED <<todos, nextId, dirty>>
  /\ lastMove' = NoMove
  /\ UNCHANGED <<authVars, liveVars>>

\* one step of a bulkWrite: its next n operations become visible together
WriteStep(p, ops, n) ==
  LET batch == SubSeq(ops, 1, n)
  IN  /\ todos' = ApplyOps(todos, batch)
      /\ Touch(p, Written(todos, batch))

\* PATCH /bulk-update  (Todo.bulkWrite without a session: the operations
\* are applied in order, each one on its own)
BulkUpdate(p, u, ups) ==
  /\ pc[p] = "idle"
  /\ LET ops == [i \in 1..Len(ups) |-> SetOp(ups[i].id, u, ups[i].order, ups[i].userId)]
         n == PlainBatch(ops)
     IN  /\ WriteStep(p, ops, n)
         /\ IF Len(ops) <= n
            THEN Respond(p)
            ELSE /\ Goto(p, "bulkWrite", [NoReq EXCEPT !.op = "bulkUpdate", !.uid = u, !.ups = ups])
                 /\ plan' = [plan EXCEPT ![p] = SubSeq(ops, n + 1, Len(ops))]
  /\ UNCHANGED nextId
  /\ lastMove' = NoMove
  /\ UNCHANGED <<authVars, liveVars>>

BulkWrite(p) ==
  /\ pc[p] = "bulkWrite"
  /\ LET n == PlainBatch(plan[p])
     IN  /\ WriteStep(p, plan[p], n)
         /\ IF Len(plan[p]) <= n
            THEN Respond(p)
            ELSE /\ plan' = [plan EXCEPT ![p] = SubSeq(plan[p], n + 1, Len(plan[p]))]
                 /\ UNCHANGED <<pc, req>>
  /\ UNCHANGED nextId
  /\ lastMove' = NoMove
  /\ UNCHANGED <<authVars, liveVars>>

\* reorderTodos, first part of the transaction callback: find + validation
ReorderTxnRead(p, r) ==
  /\ dirty' = [dirty EXCEPT ![p] = FALSE]
  /\ IF ReorderValid(todos, r.uid, r.ids)
     THEN /\ plan' = [plan EXCEPT ![p] = ReorderOps(r.uid, r.ids)]
          /\ Goto(p, "reorderWrite", r)
     ELSE /\ plan' = [plan EXCEPT ![p] = <<>>]
          /\ Goto(p, "reorderEnd", [r EXCEPT !.status = 400])
  /\ UNCHANGED <<todos, nextId>>

\* POST /reorder  (an empty list is answered 400 by the route)
Reorder(p, u, ids) ==
  /\ pc[p] = "idle"
  /\ IF ids = <<>>
     THEN /\ Respond(p)
          /\ UNCHANGED <<todos, nextId, dirty>>
     ELSE ReorderTxnRead(p, [NoReq EXCEPT !.op = "reorder", !.uid = u, !.ids = ids])
  /\ lastMove' = NoMove
  /\ UNCHANGED <<authVars, liveVars>>

\* a bulkWrite in the session of a transaction and the commit: either a
\* write conflict, and the callback runs again, or the next operations
\* (variant: the bulkWrite is not given the session)
TxnWriteNoSession(p, retry, end) ==
  LET n == PlainBatch(plan[p])
  IN  /\ WriteStep(p, plan[p], n)
      /\ plan' = [plan EXCEPT ![p] = SubSeq(plan[p], n + 1, Len(plan[p]))]
      /\ IF Len(plan[p]) <= n
         THEN Goto(p, end, [req[p] EXCEPT !.status = 200])
         ELSE UNCHANGED <<pc, req>>
TxnWrite(p, retry, end) ==
  IF dirty[p]
  THEN /\ Goto(p, retry, [req[p] EXCEPT !.retried = TRUE])
       /\ plan' = [plan EXCEPT ![p] = <<>>]
       /\ dirty' = [dirty EXCEPT ![p] = FALSE]
       /\ UNCHANGED todos
  ELSE LET n == TxnBatch(plan[p])
       IN  /\ todos' = ApplyOps(todos, SubSeq(plan[p], 1, n))
           /\ plan' = [plan EXCEPT ![p] = SubSeq(plan[p], n + 1, Len(plan[p]))]
           /\ Touch(p, Written(todos, SubSeq(plan[p], 1, n)))
           /\ IF Len(plan[p]) <= n
              THEN Goto(p, end, [req[p] EXCEPT !.status = 200])
              ELSE UNCHANGED <<pc, req>>

ReorderWrite(p) ==
  /\ pc[p] = "reorderWrite"
  /\ TxnWrite(p, "reorderRetry", "reorderEnd")
  /\ UNCHANGED nextId
  /\ lastMove' = NoMove
  /\ UNCHANGED <<authVars, liveVars>>

\* session.withTransaction runs the callback again after a write conflict
ReorderRetry(p) ==
  /\ pc[p] = "reorderRetry"
  /\ ReorderTxnRead(p, req[p])
  /\ lastMove' = NoMove
  /\ UNCHANGED <<authVars, liveVars>>

\* reorderTodos: finally { await session.endSession() }, then the response
ReorderEnd(p) ==
  /\ pc[p] = "reorderEnd"
  /\ Respond(p)
  /\ UNCHANGED <<todos, nextId, dirty>>
  /\ lastMove' = NoMove
  /\ UNCHANGED <<authVars, liveVars>>

\* the call of slot p has succeeded in this step: the call and the order
\* its todo now has
MoveDone(p) ==
  IF pc'[p] = "moveEnd" /\ req'[p].status = 200
  THEN [uid |-> req'[p].uid, tid |-> req'[p].tid, pos |-> todos'[req'[p].tid].order,
        again |-> /\ pc[p] = "idle"
                  /\ lastMove.uid = req'[p].uid /\ lastMove.tid = req'[p].tid
                  /\ lastMove.pos = req'[p].pos,
        moved |-> IF pc[p] = "idle" THEN lastMove.moved ELSE todos' # todos]
  ELSE NoMove

\* moveTodoToPosition, first part of the transaction callback: findOne,
\* the early return, the sorted find and the computation of the bulk operations
MoveTxnRead(p, r) ==
  /\ dirty' = [dirty EXCEPT ![p] = FALSE]
  /\ IF ~MoveFinds(todos, r.tid, r.uid)
     THEN /\ Goto(p, "moveEnd", [r EXCEPT !.status = 404])
          /\ plan' = [plan EXCEPT ![p] = <<>>]
     ELSE IF MoveIsNoop(todos, r.tid, r.pos)
     THEN /\ Goto(p, "moveEnd", [r EXCEPT !.status = 200])
          /\ plan' = [plan EXCEPT ![p] = <<>>]
     ELSE /\ \E sorted \in SortedByOrder(todos, Partition(todos, r.uid, todos[r.tid].category)) :
               plan' = [plan EXCEPT ![p] = MoveOps(sorted, r.tid, r.pos)]
          /\ Goto(p, "moveWrite", r)
  /\ UNCHANGED <<todos, nextId>>

\* PATCH /:id/position  (a position below 1 is answered 400 by the route)
Move(p, u, t, pos) ==
  /\ pc[p] = "idle"
  /\ IF pos < 1
     THEN /\ Respond(p)
          /\ UNCHANGED <<todos, nextId, dirty>>
     ELSE MoveTxnRead(p, [NoReq EXCEPT !.op = "move", !.uid = u, !.tid = t, !.pos = pos])
  /\ lastMove' = MoveDone(p)
  /\ UNCHANGED <<authVars, liveVars>>

MoveWrite(p) ==
  /\ pc[p] = "moveWrite"
  /\ TxnWrite(p, "moveRetry", "moveEnd")
  /\ UNCHANGED nextId
  /\ lastMove' = MoveDone(p)
  /\ UNCHANGED <<authVars, liveVars>>

MoveRetry(p) ==
  /\ pc[p] = "moveRetry"
  /\ MoveTxnRead(p, req[p])
  /\ lastMove' = MoveDone(p)
  /\ UNCHANGED <<authVars, liveVars>>

\* moveTodoToPosition: finally { await session.endSession() }, then the response
MoveEnd(p) ==
  /\ pc[p] = "moveEnd"
  /\ Respond(p)
  /\ UNCHANGED <<todos, nextId, dirty>>
  /\ UNCHANGED lastMove
  /\ UNCHANGED <<authVars, liveVars>>

\* ------------------------------------------------- middleware/auth.js

\* generateTokens: jwt.sign({userId, type: "refresh"}, secret, {expiresIn})
generateTokens(u) == [uid |-> u, iat |-> now]

\* the token t is signed (again): it verifies from now on
Sign(t) ==
  /\ issued' = issued \cup {t}
  /\ revoked' = revoked \ {t}

\* the secrets generateTokens signs with (the fallbacks of the code; the
\* environment may name others)
\* (variant: one secret for both classes)
SharedSecret == "fallback_secret"
JWT_SECRET == "fallback_secret"
JWT_REFRESH_SECRET == "fallback_refresh_secret"

\* verifyRefreshToken: jwt.verify with the refresh secret; a refresh token
\* verifies when the server signed it, an access token presented in its
\* place (a cookie with an exp of its own) when it is signed, not expired
\* and the two secrets are the same
Verifies(t) ==
  IF "exp" \in DOMAIN t
  THEN t.signed /\ t.exp > now /\ JWT_SECRET = JWT_REFRESH_SECRET
  ELSE t \in issued

\* the refresh token r where an access token is expected: jwt.verify with
\* the access secret sees the userId and the exp of r, seven days after
\* its iat, and a signature that is good when the server signed r and the
\* two secrets are the same
RefreshAsAccess(r) ==
  [uid |-> r.uid, exp |-> r.iat + RefreshLife,
   signed |-> Verifies(r) /\ JWT_REFRESH_SECRET = JWT_SECRET]

\* an error object: its name and its statusCode (0: it has none)
AppError(code) == [name |-> "Error", statusCode |-> code]
\* verifyRefreshToken catches whatever jwt.verify throws and throws
\* new Error("Invalid refresh token")
verifyRefreshTokenError == [name |-> "Error", statusCode |-> 0]

\* middleware/errorHandler.js: the status of the response to an error
errorHandler(err) ==
  IF err.name \in {"JsonWebTokenError", "TokenExpiredError"} THEN 401
  ELSE IF err.statusCode # 0 THEN err.statusCode
  ELSE 500

\* ------------------------------------------------------- routes/auth.js

\* POST /refresh, the catch block: the error that leaves the handler
RefreshCatch(err) ==
  IF err.name \in {"TokenExpiredError", "JsonWebTokenError"} THEN AppError(401) ELSE err

\* $pull: {refreshTokens: {token: t}} removes every matching entry
\* (variant: an update that sets the array to [])
PullAll(l, t) == <<>>
Pull(l, t) == SelectSeq(l, LAMBDA x : x # t)

\* slice(-KeepTokens) when the array is longer than KeepTokens
LastTokens(l) ==
  IF Len(l) > KeepTokens THEN SubSeq(l, Len(l) - KeepTokens + 1, Len(l)) ELSE l

\* user.refreshTokens.some((tokenObj) => tokenObj.token === refreshToken)
tokenExists(l, t) == t \in Range(l)

\* a save() of user u has incremented the document's version: the save()
\* of a login that read the document before it and sets the whole array
\* fails with a VersionError
Stale(p, u) ==
  dirty' = [q \in Procs |->
              IF q # p /\ pc[q] = "loginSave" /\ req[q].uid = u THEN TRUE ELSE dirty[q]]

\* the wall clock
Tick ==
  /\ now < MaxTime
  /\ now' = now + 1
  /\ UNCHANGED <<pc, req, dirty, registered, refreshTokens, issued, exchanged, revoked>>
  /\ UNCHANGED <<todoVars, liveVars>>

\* validate("register"): the password of n characters passes the schema
\* (variant: any password that is not empty passes)
passwordNotEmpty(n) == n >= 1
passwordValid(n) == n >= PasswordMin /\ n <= PasswordMax

\* POST /register  (validate("register"), which answers a body that fails
\* the schema by AppError 400; then the first await: findOne by email or
\* username)
RegisterFind(p, u, n) ==
  /\ pc[p] = "idle"
  /\ IF ~passwordValid(n)
     THEN /\ Goto(p, "replied", [NoReq EXCEPT !.op = "register", !.uid = u, !.len = n,
                                   !.status = errorHandler(AppError(400)),
                                   !.message = "Validation failed"])
          /\ UNCHANGED <<todoVars, liveVars>>
     ELSE IF u \in registered
     THEN /\ Respond(p)
          /\ UNCHANGED <<todoVars, liveVars>>
     ELSE /\ Goto(p, "registerCreate", [NoReq EXCEPT !.op = "register", !.uid = u, !.len = n])
          /\ UNCHANGED <<todoVars, liveVars>>
  /\ UNCHANGED <<dirty, authVars>>

\* POST /register  (second await: user.save() inserts the user; the unique
\* indexes reject a second insert)
RegisterCreate(p) ==
  /\ pc[p] = "registerCreate"
  /\ IF req[p].uid \in registered
     THEN /\ Respond(p)
          /\ UNCHANGED <<registered, refreshTokens, todoVars, liveVars>>
     ELSE /\ registered' = registered \cup {req[p].uid}
          /\ refreshTokens' = [refreshTokens EXCEPT ![req[p].uid] = <<>>]
          /\ pc' = [pc EXCEPT ![p] = "registerSave"]
          /\ UNCHANGED <<req, todoVars, liveVars>>
  /\ UNCHANGED <<dirty, now, issued, exchanged, revoked>>

\* POST /register  (generateTokens, refreshTokens.push, third await: user.save())
RegisterSave(p) ==
  /\ pc[p] = "registerSave"
  /\ Sign(generateTokens(req[p].uid))
  /\ refreshTokens' = [refreshTokens EXCEPT
                         ![req[p].uid] = Append(@, generateTokens(req[p].uid))]
  /\ exchanged' = exchanged \ {generateTokens(req[p].uid)}
  /\ Stale(p, req[p].uid)
  /\ Respond(p)
  /\ UNCHANGED <<now, registered>>
  /\ UNCHANGED <<todoVars, liveVars>>

\* POST /login  (findOne and comparePassword)
LoginFind(p, u, passwordOk) ==
  /\ pc[p] = "idle"
  /\ IF u \in registered /\ u \notin inactive /\ passwordOk
     THEN /\ Goto(p, "loginSave", [NoReq EXCEPT !.op = "login", !.uid = u,
                                                !.seen = refreshTokens[u]])
          /\ UNCHANGED <<todoVars, liveVars>>
     ELSE /\ Respond(p)
          /\ UNCHANGED <<todoVars, liveVars>>
  /\ dirty' = [dirty EXCEPT ![p] = FALSE]
  /\ UNCHANGED <<authVars, liveVars>>

\* POST /login  (generateTokens, push, slice(-5) when longer than 5, then
\* user.save(): a $push of the new entry, or a $set of the whole array under
\* the version that was read)
LoginSave(p) ==
  /\ pc[p] = "loginSave"
  /\ LET u == req[p].uid
         t == generateTokens(u)
         l == Append(req[p].seen, t)
     IN  /\ Sign(t)
         /\ IF Len(l) > KeepTokens
            THEN IF dirty[p]
                 THEN UNCHANGED <<refreshTokens, dirty, exchanged>>
                 ELSE /\ refreshTokens' = [refreshTokens EXCEPT ![u] = LastTokens(l)]
                      /\ exchanged' = exchanged \ {t}
                      /\ Stale(p, u)
            ELSE /\ refreshTokens' = [refreshTokens EXCEPT ![u] = Append(@, t)]
                 /\ exchanged' = exchanged \ {t}
                 /\ Stale(p, u)
  /\ Respond(p)
  /\ UNCHANGED <<now, registered>>
  /\ UNCHANGED <<todoVars, liveVars>>

\* POST /refresh  (verifyRefreshToken, await findById, the check of the
\* stored list and, when the token is there, generateTokens)
Refresh(p, t) ==
  /\ pc[p] = "idle"
  /\ IF ~Verifies(t)
     THEN /\ Goto(p, "refreshFailed",
                  [NoReq EXCEPT !.op = "refresh", !.tok = t, !.cleared = TRUE,
                                !.status = errorHandler(RefreshCatch(verifyRefreshTokenError))])
          /\ UNCHANGED <<todoVars, liveVars, issued, revoked>>
     ELSE IF t.uid \notin registered \/ t.uid \in inactive
     THEN /\ Goto(p, "refreshFailed",
                  [NoReq EXCEPT !.op = "refresh", !.tok = t, !.cleared = TRUE,
                                !.status = errorHandler(RefreshCatch(AppError(401)))])
          /\ UNCHANGED <<todoVars, liveVars, issued, revoked>>
     ELSE IF ~tokenExists(refreshTokens[t.uid], t)
     THEN /\ Goto(p, "refreshWipe", [NoReq EXCEPT !.op = "refresh", !.uid = t.uid, !.tok = t])
          /\ UNCHANGED <<todoVars, liveVars, issued, revoked>>
     ELSE /\ Goto(p, "refreshPull", [NoReq EXCEPT !.op = "refresh", !.uid = t.uid, !.tok = t,
                                                  !.new = generateTokens(t.uid),
                                                  !.before = refreshTokens[t.uid]])
          /\ Sign(generateTokens(t.uid))
          /\ UNCHANGED <<todoVars, liveVars>>
  /\ UNCHANGED <<dirty, now, registered, refreshTokens, exchanged>>

\* POST /refresh  (the error reaches errorHandler, which sends the response)
RefreshFailed(p) ==
  /\ pc[p] = "refreshFailed"
  /\ Respond(p)
  /\ UNCHANGED <<dirty, authVars>>
  /\ UNCHANGED <<todoVars, liveVars>>

\* POST /refresh  (reuse detection: $set refreshTokens to [], then the 401)
RefreshWipe(p) ==
  /\ pc[p] = "refreshWipe"
  /\ refreshTokens' = [refreshTokens EXCEPT ![req[p].uid] = <<>>]
  /\ revoked' = {t \in issued : t.uid = req[p].uid} \cup revoked
  /\ Respond(p)
  /\ UNCHANGED <<dirty, now, registered, issued, exchanged>>
  /\ UNCHANGED <<todoVars, liveVars>>

\* POST /refresh  (await findByIdAndUpdate $pull of the presented token)
RefreshPull(p) ==
  /\ pc[p] = "refreshPull"
  /\ refreshTokens' = [refreshTokens EXCEPT ![req[p].uid] = Pull(@, req[p].tok)]
  /\ exchanged' = exchanged \cup {req[p].tok}
  /\ Goto(p, "refreshPush", [req[p] EXCEPT !.reused = req[p].tok \in exchanged])
  /\ UNCHANGED <<dirty, now, registered, issued, revoked>>
  /\ UNCHANGED <<todoVars, liveVars>>

\* POST /refresh  (await findByIdAndUpdate $push of the new token)
RefreshPush(p) ==
  /\ pc[p] = "refreshPush"
  /\ refreshTokens' = [refreshTokens EXCEPT ![req[p].uid] = Append(@, req[p].new)]
  /\ exchanged' = exchanged \ {req[p].new}
  /\ pc' = [pc EXCEPT ![p] = "refreshReread"]
  /\ UNCHANGED <<req, dirty, now, registered, issued, revoked>>
  /\ UNCHANGED <<todoVars, liveVars>>

\* POST /refresh  (await findById; the response when there is nothing to trim)
RefreshReread(p) ==
  /\ pc[p] = "refreshReread"
  /\ IF Len(refreshTokens[req[p].uid]) > KeepTokens
     THEN /\ Goto(p, "refreshTrim", [req[p] EXCEPT !.seen = refreshTokens[req[p].uid]])
          /\ UNCHANGED <<todoVars, liveVars>>
     ELSE /\ Respond(p)
          /\ UNCHANGED <<todoVars, liveVars>>
  /\ UNCHANGED <<dirty, now, registered, refreshTokens, issued, exchanged, revoked>>

\* POST /refresh  (await findByIdAndUpdate $set of the last 5 of the array
\* that was read; then the response)
RefreshTrim(p) ==
  /\ pc[p] = "refreshTrim"
  /\ refreshTokens' = [refreshTokens EXCEPT ![req[p].uid] = LastTokens(req[p].seen)]
  /\ Respond(p)
  /\ UNCHANGED <<dirty, now, registered, issued, exchanged, revoked>>
  /\ UNCHANGED <<todoVars, liveVars>>

\* POST /logout  (with a cookie: updateOne of the user that stores the
\* token, $pull; then clearCookie and the response; NoToken: no cookie)
Logout(p, t) ==
  /\ pc[p] = "idle"
  /\ refreshTokens' = [u \in Users |->
                         IF t # NoToken /\ tokenExists(refreshTokens[u], t)
                         THEN Pull(refreshTokens[u], t) ELSE refreshTokens[u]]
  /\ Goto(p, "replied", [NoReq EXCEPT !.op = "logout", !.tok = t,
                                      !.cleared = TRUE, !.status = 200])
  /\ UNCHANGED <<dirty, now, registered, issued, exchanged, revoked>>
  /\ UNCHANGED <<todoVars, liveVars>>

\* POST /logout-all  (with a cookie: verifyRefreshToken, which throws
\* before anything else is done, then findByIdAndUpdate refreshTokens: [];
\* then clearCookie and the response; NoToken: no cookie)
LogoutAll(p, t) ==
  /\ pc[p] = "idle"
  /\ IF t # NoToken /\ ~Verifies(t)
     THEN /\ Goto(p, "replied", [NoReq EXCEPT !.op = "logoutAll", !.tok = t,
                                   !.status = errorHandler(verifyRefreshTokenError)])
          /\ UNCHANGED refreshTokens
     ELSE /\ Goto(p, "replied", [NoReq EXCEPT !.op = "logoutAll", !.tok = t,
                                   !.cleared = TRUE, !.status = 200])
          /\ IF t # NoToken /\ t.uid \in registered
             THEN refreshTokens' = [refreshTokens EXCEPT ![t.uid] = <<>>]
             ELSE UNCHANGED refreshTokens
  /\ UNCHANGED <<dirty, now, registered, issued, exchanged, revoked>>
  /\ UNCHANGED <<todoVars, liveVars>>

\* ------------------------------------- middleware/auth.js: authenticateToken

\* jwt.verify(token, secret): the signature first, then the exp claim
jwtVerify(t) ==
  IF ~t.signed THEN "JsonWebTokenError"
  ELSE IF t.exp <= now THEN "TokenExpiredError"
  ELSE "ok"

\* !user || !user.isActive  (variant: !user)
UserExists(u) == u \in registered
UserUsable(u) == u \in registered /\ u \notin inactive

\* the middleware answers the request itself: res.status(code).json({message})
Deny(p, t, code, m) ==
  Goto(p, "denied", [NoReq EXCEPT !.op = "gate", !.bearer = t,
                                  !.status = code, !.message = m])

\* authenticateToken up to its await: the Authorization header, jwt.verify
Authenticate(p, t) ==
  /\ pc[p] = "idle"
  /\ IF t = NoAccess
     THEN Deny(p, t, 401, "Access token required")
     ELSE IF jwtVerify(t) = "TokenExpiredError"
     THEN Deny(p, t, 401, "Token expired")
     ELSE IF jwtVerify(t) = "JsonWebTokenError"
     THEN Deny(p, t, 401, "Invalid token")
     ELSE Goto(p, "authFind", [NoReq EXCEPT !.op = "gate", !.bearer = t])
  /\ UNCHANGED <<dirty, todoVars, authVars, liveVars>>

\* authenticateToken after await User.findById: the 401, or req.userId and next()
AuthFind(p) ==
  /\ pc[p] = "authFind"
  /\ IF UserUsable(req[p].bearer.uid)
     THEN Goto(p, "authed", [req[p] EXCEPT !.uid = req[p].bearer.uid])
     ELSE Deny(p, req[p].bearer, 401, "Invalid token or user deactivated")
  /\ UNCHANGED <<dirty, todoVars, authVars, liveVars>>

\* the response of the middleware has been sent
Denied(p) ==
  /\ pc[p] = "denied"
  /\ Respond(p)
  /\ UNCHANGED <<dirty, authVars, liveVars>>
  /\ UNCHANGED <<todos, nextId, lastMove>>

\* DELETE /users/account  (await findById, comparePassword; a wrong
\* password is answered 400)
DeleteAccount(p, u, passwordOk) ==
  /\ Arrives(p, u)
  /\ IF passwordOk
     THEN /\ Goto(p, "accountSave", [NoReq EXCEPT !.op = "deleteAccount", !.uid = u])
          /\ UNCHANGED plan
     ELSE Respond(p)
  /\ UNCHANGED <<dirty, authVars, liveVars>>
  /\ UNCHANGED <<todos, nextId, lastMove>>

\* DELETE /users/account  (user.isActive = false, email and username get
\* the prefix deleted_<Date.now()>_, await user.save(); save() validates
\* the modified paths: fits is whether the new username, 22 characters
\* longer, still has at most the 30 characters the schema allows)
AccountSave(p) ==
  /\ pc[p] = "accountSave"
  /\ \E fits \in BOOLEAN :
       inactive' = IF fits THEN inactive \cup {req[p].uid} ELSE inactive
  /\ Respond(p)
  /\ UNCHANGED <<dirty, authVars, conn, received, delivered, nextSweep>>
  /\ UNCHANGED <<todos, nextId, lastMove>>

\* ------------------------------------------------ socketAuth (sockets)

\* socket.join(`user_${socket.userId}`): the name of the room
Room(u) == <<"user_", u>>

\* isTokenValid: socket.tokenExp > Math.floor(Date.now() / 1000)
isTokenValid(k) == k.tokenExp # 0 /\ k.tokenExp > now

\* the handshake is refused: next(new Error(m))
Rejected(m) == [NoConn EXCEPT !.state = "rejected", !.error = m]

\* the wall clock of the socket server; the timer fires when it is due
Tock ==
  /\ now < MaxSweeps * SweepInterval + 1
  /\ now < nextSweep
  /\ now' = now + 1
  /\ received' = NoEvent
  /\ delivered' = {}
  /\ UNCHANGED <<pc, req, dirty, registered, refreshTokens, issued, exchanged, revoked>>
  /\ UNCHANGED <<todoVars, inactive, conn, nextSweep>>

\* what a step of the socket server leaves alone
SocketFrame == UNCHANGED <<pc, req, dirty, todoVars, authVars, inactive>>

\* authenticateSocket up to its await: handshake.auth.token, jwt.verify
Handshake(c, t) ==
  /\ conn[c].state \in {"closed", "rejected"}
  /\ conn' = [conn EXCEPT ![c] =
                IF t = NoAccess THEN Rejected("Authentication token required")
                ELSE IF jwtVerify(t) = "TokenExpiredError" THEN Rejected("Token expired")
                ELSE IF jwtVerify(t) = "JsonWebTokenError" THEN Rejected("Invalid token")
                ELSE [NoConn EXCEPT !.state = "handshake", !.tok = t]]
  /\ received' = NoEvent
  /\ delivered' = {}
  /\ UNCHANGED nextSweep
  /\ SocketFrame

\* authenticateSocket: !user || !user.isActive  (variant: !user)
SocketUserExists(u) == u \in registered
SocketUserUsable(u) == u \in registered /\ u \notin inactive

\* authenticateSocket after await User.findById; next() connects the socket
\* and io.on("connection") runs setupSocketHandlers: join, socket.on(...)
HandshakeFind(c) ==
  /\ conn[c].state = "handshake"
  /\ conn' = [conn EXCEPT ![c] =
                IF SocketUserUsable(conn[c].tok.uid)
                THEN [NoConn EXCEPT !.state = "active", !.userId = conn[c].tok.uid,
                                    !.tokenExp = conn[c].tok.exp,
                                    !.room = Room(conn[c].tok.uid), !.handlers = TRUE]
                ELSE Rejected("Invalid token or user deactivated")]
  /\ received' = NoEvent
  /\ delivered' = {}
  /\ UNCHANGED nextSweep
  /\ SocketFrame

\* the client closes the connection: the socket leaves its rooms
Disconnect(c) ==
  /\ conn[c].state = "active"
  /\ conn' = [conn EXCEPT ![c] = NoConn]
  /\ received' = NoEvent
  /\ delivered' = {}
  /\ UNCHANGED nextSweep
  /\ SocketFrame

\* handleTokenExpiration: one run of the timer over io.sockets.sockets
Sweep ==
  /\ now = nextSweep
  /\ nextSweep' = nextSweep + SweepInterval
  /\ LET X == {c \in Conns : conn[c].state = "active" /\ ~isTokenValid(conn[c])}
     IN  /\ conn' = [c \in Conns |->
                       IF c \in X THEN [NoConn EXCEPT !.notices = conn[c].notices + 1]
                       ELSE conn[c]]
         /\ delivered' = {<<c, "token_expired">> : c \in X}
  /\ received' = NoEvent
  /\ SocketFrame

\* socket.on("refresh_token"): the expiry the socket keeps on success
\* (variant: the stored expiry is left as it is)
KeptExp(k, t) == k.tokenExp
RefreshedExp(k, t) == t.exp

\* socket.on("refresh_token")
RefreshToken(c, t) ==
  /\ conn[c].handlers
  /\ received' = Event(c, "refresh_token", "none", t)
  /\ IF t # NoAccess /\ jwtVerify(t) = "ok"
     THEN /\ conn' = [conn EXCEPT ![c].tokenExp = RefreshedExp(conn[c], t)]
          /\ delivered' = {<<c, "token_refreshed">>}
     ELSE /\ conn' = [conn EXCEPT ![c] = NoConn]
          /\ delivered' = {<<c, "token_refresh_failed">>}
  /\ UNCHANGED nextSweep
  /\ SocketFrame

\* the events a handler relays, and the event it emits for each
MutationEvents == {"todo_updated", "todo_created", "todo_deleted", "todos_bulk_updated"}
TypingEvents == {"typing_start", "typing_stop"}
Emitted(e) ==
  IF e = "typing_start" THEN "user_typing"
  ELSE IF e = "typing_stop" THEN "user_stopped_typing"
  ELSE e

\* data.userId && data.userId === socket.userId  (owner "none": no userId)
\* (variant: data.userId alone)
PayloadHasOwner(k, owner) == owner # "none"
PayloadOwned(k, owner) == owner # "none" /\ owner = k.userId

\* socket.to(room): the sockets of the room but the sender
\* (variant: io.to(room), the sender included)
InRoom(c, room) == {d \in Conns : conn[d].room = room}
ToRoom(c, room) == {d \in Conns \ {c} : conn[d].room = room}

\* socket.on(e) for the mutation events and the typing indicators
Relay(c, e, owner) ==
  /\ conn[c].handlers
  /\ received' = Event(c, e, owner, NoAccess)
  /\ delivered' =
       IF e \in MutationEvents /\ ~PayloadOwned(conn[c], owner)
       THEN {}
       ELSE {<<d, Emitted(e)>> : d \in ToRoom(c, Room(conn[c].userId))}
  /\ UNCHANGED <<conn, nextSweep>>
  /\ SocketFrame

\* ----------------------------------------------------------- specifications

\* the requests of slot p, made by the users U on the categories C
Handlers(p, U, C) ==
  \/ \E u \in U, c \in C : CreateRead(p, u, c)
  \/ CreateSave(p)
  \/ \E u \in U, t \in TodoIds : Delete(p, u, t)
  \/ \E u \in U, ids \in ReorderBodies : Reorder(p, u, ids)
  \/ ReorderWrite(p)
  \/ ReorderEnd(p)
  \/ \E u \in U, t \in TodoIds, pos \in Positions : Move(p, u, t, pos)
  \/ MoveWrite(p)
  \/ MoveEnd(p)

\* the transaction callbacks run again: only a request in flight at the
\* same time gives a transaction a write conflict
Retries(p) ==
  \/ ReorderRetry(p)
  \/ MoveRetry(p)

\* normalizeOrderValues: .sort({ order: 1, createdAt: 1 }) puts x before y
\* (documents are created in the sequence of their _id)
\* (variant: among equal orders the later created comes first)
LatestFirst(s, x, y) ==
  s[x].order < s[y].order \/ (s[x].order = s[y].order /\ x > y)
OrderThenCreatedAt(s, x, y) ==
  s[x].order < s[y].order \/ (s[x].order = s[y].order /\ x < y)

\* normalizeOrderValues(userId, category): the documents found, sorted;
\* category "all" is the call without a category (filter without it)
normalizeFound(s, u, c) ==
  LET S == {t \in TodoIds : /\ Owned(s, t, u) /\ ~s[t].isArchived
                             /\ (c = "all" \/ s[t].category = c)}
  IN  CHOOSE q \in [1..Cardinality(S) -> S] :
        \A i, j \in 1..Cardinality(S) : i < j => OrderThenCreatedAt(s, q[i], q[j])

\* normalizeOrderValues  (first await: Todo.find; the operations filter by
\* _id alone and set order to index + 1)
NormalizeFind(p, u, c) ==
  /\ pc[p] = "idle"
  /\ LET q == normalizeFound(todos, u, c)
     IN  /\ plan' = [plan EXCEPT ![p] = [i \in 1..Len(q) |-> WriteOp(q[i], "any", i)]]
         /\ Goto(p, IF Len(q) > 0 THEN "normalizeWrite" ELSE "replied",
                 [NoReq EXCEPT !.op = "normalize", !.uid = u, !.cat = c, !.ids = q])
  /\ UNCHANGED <<todos, nextId, dirty>>
  /\ lastMove' = NoMove
  /\ UNCHANGED <<authVars, liveVars>>

\* normalizeOrderValues  (Todo.bulkWrite without a session)
NormalizeWrite(p) ==
  /\ pc[p] = "normalizeWrite"
  /\ LET n == PlainBatch(plan[p])
     IN  /\ WriteStep(p, plan[p], n)
         /\ plan' = [plan EXCEPT ![p] = SubSeq(plan[p], n + 1, Len(plan[p]))]
         /\ IF Len(plan[p]) <= n
            THEN pc' = [pc EXCEPT ![p] = "replied"]
            ELSE UNCHANGED pc
         /\ UNCHANGED req
  /\ UNCHANGED nextId
  /\ lastMove' = NoMove
  /\ UNCHANGED <<authVars, liveVars>>

MoreHandlers(p, U, C) ==
  \/ \E u \in U, t \in TodoIds, a \in BOOLEAN : ArchiveFind(p, u, t, a)
  \/ ArchiveSave(p)
  \/ \E u \in U, t \in TodoIds, c \in C : UpdateFind(p, u, t, CategoryBody(c))
  \/ UpdateSave(p)
  \/ \E u \in U, S \in SUBSET TodoIds : BulkDelete(p, u, S)
  \/ \E u \in U, ups \in BulkBodies : BulkUpdate(p, u, ups)
  \/ BulkWrite(p)

\* one request at a time, every handler, two categories; the second user
\* creates, deletes, reorders and moves todos
NextSeq == Handlers("r1", Users, Cats) \/ MoreHandlers("r1", {"u1"}, Cats) \/ Replied("r1")
SpecSeq == Init /\ [][NextSeq]_vars

\* the reads of slot p, made by the users U
Reads(p, U) ==
  \/ \E u \in U, t \in TodoIds : GetTodo(p, u, t)
  \/ \E u \in U, c \in Cats \cup {"all"}, a \in BOOLEAN : ListTodos(p, u, c, a)
  \/ \E u \in U : ExportTodos(p, u)
  \/ Replied(p)

\* one request at a time, two users, every handler; todos are created in
\* one category, and a bulk-update may carry a userId in its data
NextOwners ==
  \/ nextId <= MaxOwned /\ \E u \in Users : CreateRead("r1", u, "general")
  \/ CreateSave("r1")
  \/ \E u \in Users, t \in TodoIds : Delete("r1", u, t)
  \/ \E u \in Users, ids \in ReorderBodies : Reorder("r1", u, ids)
  \/ ReorderWrite("r1")
  \/ ReorderEnd("r1")
  \/ \E u \in Users, t \in TodoIds, pos \in Positions : Move("r1", u, t, pos)
  \/ MoveWrite("r1")
  \/ MoveEnd("r1")
  \/ MoreHandlers("r1", Users, Cats)
  \/ \E u \in Users, ups \in OwnerBodies : BulkUpdate("r1", u, ups)
  \/ Reads("r1", Users)
SpecOwners == Init /\ [][NextOwners]_vars

\* bodies that name flags and dates
Flags == {<<>>, <<TRUE>>, <<FALSE>>}
Days == {<<>>} \cup {<<d>> : d \in 0..MaxDate}
FieldBodies == [category : {<<>>}, completed : Flags, isArchived : Flags,
                dueDate : Days, reminderDate : Days]

\* one request at a time, one user: the endpoints that change the flags
\* and the dates of a todo
NextFields ==
  \/ nextId < MaxOwned /\ CreateRead("r1", "u1", "general")
  \/ CreateSave("r1")
  \/ \E t \in TodoIds, b \in FieldBodies : UpdateFind("r1", "u1", t, b)
  \/ \E t \in TodoIds : ToggleFind("r1", "u1", t)
  \/ UpdateSave("r1")
  \/ \E t \in TodoIds, a \in BOOLEAN : ArchiveFind("r1", "u1", t, a)
  \/ ArchiveSave("r1")
  \/ \E t \in TodoIds, d \in FieldBodies : BulkSet("r1", "u1", t, d)
SpecFields == Init /\ [][NextFields]_vars

\* one caller at a time: stores with gaps, duplicates, archived todos, two
\* categories and two users, and normalizeOrderValues called on them
NextRepair ==
  \/ nextId <= MaxOwned + 1 /\ \E u \in Users, c \in Cats : CreateRead("r1", u, c)
  \/ CreateSave("r1")
  \/ \E t \in TodoIds : Delete("r1", "u1", t)
  \/ \E t \in TodoIds, a \in BOOLEAN : ArchiveFind("r1", "u1", t, a)
  \/ ArchiveSave("r1")
  \/ \E ups \in BulkBodies : BulkUpdate("r1", "u1", ups)
  \/ BulkWrite("r1")
  \/ \E c \in Cats \cup {"all"} : NormalizeFind("r1", "u1", c)
  \/ NormalizeWrite("r1")
  \/ Replied("r1")
SpecRepair == Init /\ [][NextRepair]_vars

\* two requests of one user in flight: creations, archiving and
\* unarchiving, deletions; no request changes the order a todo was created with
NextCreate ==
  \E p \in Procs :
    \/ CreateRead(p, "u1", "general")
    \/ CreateSave(p)
    \/ \E t \in TodoIds, a \in BOOLEAN : ArchiveFind(p, "u1", t, a)
    \/ ArchiveSave(p)
    \/ \E t \in TodoIds : Delete(p, "u1", t)
SpecCreate == Init /\ [][NextCreate]_vars

\* two requests of one user in flight
Next == \E p \in Procs : Handlers(p, {"u1"}, {"general"}) \/ Retries(p)
Spec == Init /\ [][Next]_vars

\* the refresh-token cookies a request may carry for the users U: the
\* tokens that verify are the ones the server has signed
Cookies(U) == [uid : U, iat : Times]

\* the auth requests of slot p, made by or for the users U
AuthHandlers(p, U) ==
  \/ \E u \in U : RegisterFind(p, u, PasswordMin)
  \/ RegisterCreate(p)
  \/ RegisterSave(p)
  \/ \E u \in U, passwordOk \in BOOLEAN : LoginFind(p, u, passwordOk)
  \/ LoginSave(p)
  \/ \E t \in Cookies(U) : Refresh(p, t)
  \/ RefreshFailed(p)
  \/ RefreshWipe(p)
  \/ RefreshPull(p)
  \/ RefreshPush(p)
  \/ RefreshReread(p)
  \/ RefreshTrim(p)
  \/ \E t \in Cookies(U) : Logout(p, t)
  \/ \E t \in Cookies(U) : LogoutAll(p, t)
  \/ Replied(p)

\* one auth request at a time, two users, requests with and without a
\* cookie, and the clock; with one request at a time a stored list never
\* exceeds KeepTokens entries, so that /refresh has nothing to trim
NextSessions ==
  \/ Tick
  \/ \E u \in Users, n \in PasswordLengths : RegisterFind("r1", u, n)
  \/ RegisterCreate("r1")
  \/ RegisterSave("r1")
  \/ \E u \in Users, passwordOk \in BOOLEAN : LoginFind("r1", u, passwordOk)
  \/ LoginSave("r1")
  \/ \E t \in Cookies(Users) : Refresh("r1", t)
  \/ RefreshFailed("r1")
  \/ RefreshWipe("r1")
  \/ RefreshPull("r1")
  \/ RefreshPush("r1")
  \/ RefreshReread("r1")
  \/ \E t \in Cookies(Users) \cup {NoToken} : Logout("r1", t)
  \/ \E t \in Cookies(Users) \cup {NoToken} : LogoutAll("r1", t)
  \/ Replied("r1")
SpecSessions == Init /\ [][NextSessions]_vars

\* a wipe of the stored list of user u has completed: the reuse detection
\* of /refresh, or a /logout-all whose response is being sent
Wiped(u) ==
  \/ \E t \in revoked : t.uid = u
  \/ \E q \in Procs : /\ pc[q] = "replied" /\ req[q].op = "logoutAll" /\ req[q].cleared
                       /\ req[q].tok # NoToken /\ req[q].tok.uid = u /\ u \in registered
\* a /refresh is in progress in slot p
Refreshing(p) == req[p].op = "refresh" /\ pc[p] # "idle"
OnlyRefreshes == \A q \in Procs : pc[q] = "idle" \/ Refreshing(q)

\* two auth requests of one user in flight until the first wipe, which
\* comes while nothing but /refresh is in progress; after it no request
\* arrives and the requests in progress finish
NextWipe ==
  \/ ~Wiped("u1") /\ Tick
  \/ ~Wiped("u1") /\ \E p \in Procs : RegisterFind(p, "u1", PasswordMin)
  \/ ~Wiped("u1") /\ \E p \in Procs, passwordOk \in BOOLEAN : LoginFind(p, "u1", passwordOk)
  \/ ~Wiped("u1") /\ \E p \in Procs, t \in Cookies({"u1"}) : Refresh(p, t)
  \/ ~Wiped("u1") /\ OnlyRefreshes /\ \E p \in Procs, t \in Cookies({"u1"}) : LogoutAll(p, t)
  \/ OnlyRefreshes /\ \E p \in Procs : RefreshWipe(p)
  \/ \E p \in Procs :
       \/ RegisterCreate(p)
       \/ RegisterSave(p)
       \/ LoginSave(p)
       \/ RefreshFailed(p)
       \/ RefreshPull(p)
       \/ RefreshPush(p)
       \/ RefreshReread(p)
       \/ RefreshTrim(p)
  \/ ~Wiped("u1") /\ \E p \in Procs : Replied(p)
SpecWipe == Init /\ [][NextWipe]_vars

\* two auth requests of one user in flight, and the clock
NextAuth == Tick \/ \E p \in Procs : AuthHandlers(p, {"u1"})
SpecAuth == Init /\ [][NextAuth]_vars

\* what a client may send as its token: nothing, an access token of the
\* server for one of the users U that expires at one of the seconds E, or
\* a token with another signature
Presented(U, E) ==
  {NoAccess} \cup {t \in AccessTokens : t.uid \in U /\ t.exp \in E /\ t.signed}
             \cup {t \in AccessTokens : t.uid \in U /\ t.exp = SweepInterval /\ ~t.signed}

\* the socket server for connection c and the tokens T
Connecting(c, T) ==
  \/ \E t \in T : Handshake(c, t)
  \/ HandshakeFind(c)
  \/ Disconnect(c)
SocketHandlers(c, T) ==
  \/ Connecting(c, T)
  \/ \E t \in T : RefreshToken(c, t)

\* the account deletion of the users U in slot p
Accounts(p, U) ==
  \/ \E u \in U, passwordOk \in BOOLEAN : DeleteAccount(p, u, passwordOk)
  \/ AccountSave(p)

\* two sockets of the first user, the clock and the timer
NextSocket ==
  \/ Tock
  \/ Sweep
  \/ \E c \in {"c1", "c2"} : SocketHandlers(c, Presented({"u1"}, Expiries \ {1}))
SpecSocket == InitLive /\ [][NextSocket]_vars

\* two sockets connect while users delete their accounts, and the clock
NextHandshake ==
  \/ Tick
  \/ \E c \in {"c1", "c2"} : Connecting(c, Presented(Users, {1, SweepInterval}))
  \/ Accounts("r1", Users)
SpecHandshake == InitLive /\ [][NextHandshake]_vars

\* three sockets and the events they send, within the first second
RelayHandlers(c) ==
  \E e \in MutationEvents \cup TypingEvents, owner \in Users \cup {"none"} : Relay(c, e, owner)
\* one request and one connection at a time, two users: account deletion,
\* and every endpoint that looks the user up
NextAccount ==
  \/ Tick
  \/ Accounts("r1", Users)
  \/ \E u \in Users, passwordOk \in BOOLEAN : LoginFind("r1", u, passwordOk)
  \/ LoginSave("r1")
  \/ \E t \in Cookies(Users) : Refresh("r1", t)
  \/ RefreshFailed("r1")
  \/ RefreshWipe("r1")
  \/ RefreshPull("r1")
  \/ RefreshPush("r1")
  \/ RefreshReread("r1")
  \/ \E t \in Presented(Users, {SweepInterval}) : Authenticate("r1", t)
  \/ AuthFind("r1")
  \/ Denied("r1")
  \/ pc["r1"] = "authed" /\ \E t \in TodoIds : Delete("r1", req["r1"].uid, t)
  \/ Connecting("c1", Presented(Users, {SweepInterval}))
SpecAccount == InitLive /\ [][NextAccount]_vars

\* signed access tokens that expire with the first sweep
Bearers == {t \in AccessTokens : t.signed /\ t.exp = SweepInterval}

\* one request and one connection at a time, each endpoint that verifies a
\* token presented with tokens of its own class and of the other class
NextClasses ==
  \/ Tick
  \/ \E passwordOk \in BOOLEAN : LoginFind("r1", "u1", passwordOk)
  \/ LoginSave("r1")
  \/ \E t \in Bearers : Authenticate("r1", t)
  \/ \E r \in Cookies(Users) : Authenticate("r1", RefreshAsAccess(r))
  \/ AuthFind("r1")
  \/ Denied("r1")
  \/ pc["r1"] = "authed" /\ \E t \in TodoIds : Delete("r1", req["r1"].uid, t)
  \/ Connecting("c1", Bearers)
  \/ \E r \in Cookies(Users) : Handshake("c1", RefreshAsAccess(r))
  \/ \E t \in Bearers : RefreshToken("c1", t)
  \/ \E r \in Cookies(Users) : RefreshToken("c1", RefreshAsAccess(r))
  \/ \E t \in Cookies(Users) : Refresh("r1", t)
  \/ \E t \in Bearers : Refresh("r1", t)
  \/ RefreshFailed("r1")
  \/ RefreshWipe("r1")
  \/ RefreshPull("r1")
  \/ RefreshPush("r1")
  \/ RefreshReread("r1")
  \/ \E t \in Cookies(Users) : LogoutAll("r1", t)
  \/ \E t \in Bearers : LogoutAll("r1", t)
  \/ Replied("r1")
SpecClasses == InitLive /\ [][NextClasses]_vars

\* the socket server, two connections, the access tokens of both users
NextGuest ==
  \/ Tock
  \/ Sweep
  \/ \E c \in {"c1", "c2"} : SocketHandlers(c, Presented(Users, Expiries \ {1}))
SpecGuest == InitLive /\ [][NextGuest]_vars

NextRelay ==
  \E c \in Conns : SocketHandlers(c, Presented(Users, {SweepInterval})) \/ RelayHandlers(c)
SpecRelay == InitLive /\ [][NextRelay]_vars

\* the requests to the routers mounted behind authenticateToken, in slot p
GateHandlers(p, C) ==
  \/ \E t \in Presented(Users, {1, SweepInterval}) : Authenticate(p, t)
  \/ AuthFind(p)
  \/ Denied(p)
  \/ pc[p] = "authed" /\ \E c \in C : CreateRead(p, req[p].uid, c)
  \/ CreateSave(p)
  \/ pc[p] = "authed" /\ \E t \in TodoIds : Delete(p, req[p].uid, t)
  \/ pc[p] = "authed" /\ \E passwordOk \in BOOLEAN : DeleteAccount(p, req[p].uid, passwordOk)
  \/ AccountSave(p)

\* two requests in flight behind the middleware, and the clock
NextGate == Tick \/ \E p \in Procs : GateHandlers(p, {"general"})
SpecGate == InitLive /\ [][NextGate]_vars

\* ------------------------------------------------------------------ claims

Orders(s, S) == {s[t].order : t \in S}
Listed(r) == Range(r.ids)
\* the list puts todo ids[i] at ordinal i
InSequence(s, ids) == \A i \in 1..Len(ids) : s[ids[i]].order = i

\* C1: in every reachable state the order values of each (owner, category,
\* archived=false) partition are pairwise distinct and are exactly 1..N,
\* N being the number of todos of the partition.
C1_PartitionContiguous ==
  \A u \in Users, c \in Cats :
    LET S == Partition(todos, u, c)
    IN  /\ \A x, y \in S : x # y => todos[x].order # todos[y].order
        /\ Orders(todos, S) = 1..Cardinality(S)

\* C2: when two reorder calls of one user with different permutations of the
\* same id set have both run, concurrently or not, the store holds the
\* ordering of exactly one of them and no two listed todos share an ordinal.
C2_OneReorderSurvives ==
  \A p, q \in Procs :
    ( /\ p # q
      /\ pc[p] = "reorderEnd" /\ req[p].status = 200
      /\ pc[q] = "reorderEnd" /\ req[q].status = 200
      /\ req[p].uid = req[q].uid
      /\ Listed(req[p]) = Listed(req[q])
      /\ req[p].ids # req[q].ids )
    => /\ InSequence(todos, req[p].ids) # InSequence(todos, req[q].ids)
       /\ \A x, y \in Listed(req[p]) : x # y => todos[x].order # todos[y].order

\* C2, witness: both calls have committed, and one of them had a write
\* conflict with the other and ran again.
C2_Witness ==
  \E p, q \in Procs :
    /\ p # q
    /\ pc[p] = "reorderEnd" /\ req[p].status = 200
    /\ pc[q] = "reorderEnd" /\ req[q].status = 200 /\ req[q].retried
    /\ Listed(req[p]) = Listed(req[q])
    /\ Len(req[p].ids) = MaxTodos
    /\ req[p].ids # req[q].ids
    /\ InSequence(todos, req[q].ids)

\* the todos of user u in category c, archived or not
InCategory(s, u, c) == {t \in TodoIds : Owned(s, t, u) /\ s[t].category = c}

\* C6: after a reorder call that passed validation and whose ids are exactly
\* the user's todos of one category, the listing of that category sorted by
\* order is the input sequence, with the ordinals 1..N in that sequence.
C6_ReorderPostcondition ==
  \A p \in Procs, c \in Cats :
    ( /\ pc[p] = "reorderEnd" /\ req[p].status = 200
      /\ Listed(req[p]) = InCategory(todos, req[p].uid, c) )
    => /\ SortedByOrder(todos, InCategory(todos, req[p].uid, c)) = {req[p].ids}
       /\ InSequence(todos, req[p].ids)
       /\ Orders(todos, Listed(req[p])) = 1..Len(req[p].ids)

C6_Witness ==
  \E p \in Procs, c \in Cats :
    /\ pc[p] = "reorderEnd" /\ req[p].status = 200
    /\ Listed(req[p]) = InCategory(todos, req[p].uid, c)
    /\ Len(req[p].ids) = MaxTodos
    /\ req[p].ids[1] > req[p].ids[2]

\* C7: a reorder is never partially observable: a step of a reorder call
\* that makes any of its writes visible makes all of them visible, so that
\* every listed todo carries its new ordinal and no other todo has changed;
\* and a call that meets a write conflict has changed nothing.
C7_NoPartialReorder ==
  [][\A p \in Procs :
       (pc[p] = "reorderWrite" /\ (plan'[p] # plan[p] \/ pc'[p] # pc[p]))
       => \/ /\ pc'[p] = "reorderEnd" /\ req'[p].status = 200
             /\ InSequence(todos', req[p].ids)
             /\ \A t \in TodoIds \ Listed(req[p]) : todos'[t] = todos[t]
          \/ /\ pc'[p] = "reorderRetry"
             /\ todos' = todos]_vars

\* C7, witness: a reorder of several todos has committed while another
\* request of the user is in flight
C7_Witness ==
  \E p, q \in Procs :
    /\ p # q
    /\ pc[p] = "reorderEnd" /\ req[p].status = 200 /\ Len(req[p].ids) >= 2
    /\ pc[q] \in {"moveWrite", "reorderWrite", "createSave"}

\* the list names a todo that does not exist or is owned by somebody else,
\* or the number of matching todos differs from its length
BadList(s, u, ids) ==
  \/ \E i \in 1..Len(ids) : ~Exists(s, ids[i]) \/ s[ids[i]].userId # u
  \/ Cardinality({t \in TodoIds : Owned(s, t, u) /\ t \in Range(ids)}) # Len(ids)

\* C8: a reorder call whose list names a missing or foreign todo, or repeats
\* one, ends with status 400 at its validation and changes no todo, then and
\* in the rest of the call.
C8_BadListRejected ==
  [][\A p \in Procs :
       /\ ( /\ pc[p] \in {"idle", "reorderRetry"}
            /\ pc'[p] \in {"reorderWrite", "reorderEnd"}
            /\ BadList(todos, req'[p].uid, req'[p].ids) )
          => (pc'[p] = "reorderEnd" /\ req'[p].status = 400 /\ todos' = todos)
       /\ ( /\ pc[p] = "reorderEnd" /\ req[p].status = 400 /\ pc'[p] # pc[p] )
          => todos' = todos]_vars

C8_Witness ==
  \E p \in Procs :
    /\ pc[p] = "reorderEnd" /\ req[p].status = 400
    /\ Len(req[p].ids) = 2
    /\ Owned(todos, req[p].ids[1], req[p].uid)
    /\ Exists(todos, req[p].ids[2]) /\ ~Owned(todos, req[p].ids[2], req[p].uid)

\* C9: for a non-archived todo t of the user in a category with N
\* non-archived todos, 1 <= pos <= N and pos different from t's order, the
\* commit of moveToPosition(t, user, pos) leaves t with order pos, keeps the
\* relative sequence of the other todos of the partition, and leaves the
\* partition with the ordinals 1..N.
C9_MovePostcondition ==
  [][\A p \in Procs :
       LET t == req[p].tid
           S == Partition(todos, req[p].uid, todos[t].category)
       IN  ( /\ pc[p] = "moveWrite" /\ pc'[p] = "moveEnd"
             /\ t \in S
             /\ req[p].pos \in 1..Cardinality(S)
             /\ req[p].pos # todos[t].order )
           => /\ todos'[t].order = req[p].pos
              /\ \A x, y \in S \ {t} :
                   todos[x].order < todos[y].order => todos'[x].order < todos'[y].order
              /\ Partition(todos', req[p].uid, todos[t].category) = S
              /\ Orders(todos', S) = 1..Cardinality(S)]_vars

\* C9, witness: the scenario of orders [1,2,3] and the first todo moved to 3
C9_Witness ==
  \E p \in Procs, a, b, c \in TodoIds :
    /\ pc[p] = "moveEnd" /\ req[p].status = 200
    /\ req[p].tid = a /\ req[p].pos = 3
    /\ a < b /\ b < c
    /\ Partition(todos, req[p].uid, todos[a].category) = {a, b, c}
    /\ todos[b].order = 1 /\ todos[c].order = 2 /\ todos[a].order = 3

\* C10: when moveToPosition(t, user, pos) has succeeded and left t with
\* order q, the call moveToPosition(t, user, q) made immediately afterwards
\* ends successfully at its early return and changes no todo.
C10_MoveIdempotent ==
  [][\A p \in Procs :
       ( /\ lastMove # NoMove
         /\ pc[p] = "idle" /\ pc'[p] # "idle"
         /\ req'[p].op = "move"
         /\ req'[p].uid = lastMove.uid /\ req'[p].tid = lastMove.tid
         /\ req'[p].pos = lastMove.pos )
       => (pc'[p] = "moveEnd" /\ req'[p].status = 200 /\ todos' = todos)]_vars

\* C10, witness: the second call has ended at the early return, after a
\* first call that did move the todo of a full category
C10_Witness ==
  \E p \in Procs :
    /\ pc[p] = "moveEnd" /\ req[p].status = 200
    /\ lastMove.again /\ lastMove.moved
    /\ lastMove.tid = req[p].tid /\ lastMove.pos = todos[req[p].tid].order
    /\ Cardinality(Partition(todos, req[p].uid, todos[req[p].tid].category)) = MaxTodos

\* the /refresh of slot p answers with new tokens in this step
RefreshSucceeds(p) ==
  /\ pc[p] \in {"refreshReread", "refreshTrim"}
  /\ pc'[p] = "idle"

\* slot p receives a /refresh in this step, with a token that verifies
RefreshArrives(p) ==
  /\ pc[p] = "idle"
  /\ pc'[p] \in {"refreshWipe", "refreshPull"}
  /\ req'[p].op = "refresh"

\* C3: a /refresh whose token verifies but is not in the user's stored list
\* fails and empties the list, and every /refresh that arrives afterwards
\* with a token signed for that user before the list was emptied (and not
\* signed again since) fails as well.
C3_ReuseRevokesAll ==
  [][\A p \in Procs :
       /\ ( RefreshArrives(p)
            /\ ~tokenExists(refreshTokens[req'[p].uid], req'[p].tok) )
          => pc'[p] = "refreshWipe"
       /\ ( pc[p] = "refreshWipe" /\ pc'[p] # "refreshWipe" )
          => (pc'[p] = "idle" /\ refreshTokens'[req[p].uid] = <<>>)
       /\ ( RefreshArrives(p) /\ req'[p].tok \in revoked )
          => pc'[p] = "refreshWipe"]_vars

\* C4: when a /refresh answers with new tokens, the presented token is not
\* in the stored list, the new token differs from the presented one and is
\* in the list, and the list is the one the request found, without the
\* presented token, with the new one appended, cut to its last 5 entries.
C4_RefreshRotates ==
  [][\A p \in Procs :
       RefreshSucceeds(p)
       => /\ ~tokenExists(refreshTokens'[req[p].uid], req[p].tok)
          /\ req[p].new # req[p].tok
          /\ tokenExists(refreshTokens'[req[p].uid], req[p].new)
          /\ refreshTokens'[req[p].uid] =
               LastTokens(Append(Pull(req[p].before, req[p].tok), req[p].new))]_vars

\* C5: a stored refresh token is exchanged at most once: a /refresh answers
\* with new tokens only when no other /refresh has taken the token it
\* presents since that token was last stored.
C5_ExchangedOnce ==
  [][\A p \in Procs : RefreshSucceeds(p) => ~req[p].reused]_vars

\* C11: moveToPosition(t, user, pos) for a todo t that does not exist or is
\* owned by another user fails with status 404 and changes no todo, neither
\* at the lookup nor in the rest of the call.
C11_MoveNotFound ==
  [][\A p \in Procs :
       /\ ( /\ pc[p] = "idle" /\ pc'[p] # "idle"
            /\ req'[p].op = "move"
            /\ (todos[req'[p].tid] = NoTodo \/ todos[req'[p].tid].userId # req'[p].uid) )
          => (pc'[p] = "moveEnd" /\ req'[p].status = 404 /\ todos' = todos)
       /\ ( pc[p] = "moveEnd" /\ req[p].status = 404 /\ pc'[p] # pc[p] )
          => (pc'[p] = "idle" /\ todos' = todos)]_vars

\* C11, witness: the call was refused for a todo of another user, which
\* shares its category with a second todo
C11_Witness ==
  \E p \in Procs, x \in TodoIds :
    /\ pc[p] = "moveEnd" /\ req[p].status = 404
    /\ Exists(todos, req[p].tid) /\ todos[req[p].tid].userId # req[p].uid
    /\ x # req[p].tid /\ Exists(todos, x)
    /\ todos[x].userId = todos[req[p].tid].userId
    /\ todos[x].category = todos[req[p].tid].category
    /\ req[p].pos # todos[req[p].tid].order

\* C12: a todo created with no other request in flight gets the order
\* 1 + the largest order among the user's non-archived todos of its category
\* (1 when there is none), and right after its creation its order is above
\* that of every other non-archived todo of the user in that category.
C12_CreatedLast ==
  [][\A p \in Procs :
       (pc[p] = "createSave" /\ pc'[p] = "idle")
       => LET S == Partition(todos, req[p].uid, req[p].cat)
              new == todos'[nextId]
          IN  /\ new.userId = req[p].uid /\ new.category = req[p].cat /\ ~new.isArchived
              /\ S = {} => new.order = 1
              /\ S # {} => /\ \E x \in S : new.order = todos[x].order + 1
                           /\ \A x \in S : todos[x].order < new.order
              /\ Partition(todos', req[p].uid, req[p].cat) = S \cup {nextId}
              /\ \A x \in S : todos'[x].order < new.order]_vars

\* C12, witness: a todo was created last in a category whose largest order
\* is held by an archived todo
C12_Witness ==
  \E t, x, y \in TodoIds :
    /\ t = nextId - 1 /\ pc["r1"] = "idle"
    /\ x # y /\ x < t /\ y < t
    /\ Owned(todos, t, "u1") /\ Owned(todos, x, "u1") /\ Owned(todos, y, "u1")
    /\ todos[x].category = todos[t].category /\ todos[y].category = todos[t].category
    /\ ~todos[t].isArchived /\ ~todos[x].isArchived /\ todos[y].isArchived
    /\ todos[y].order > todos[x].order
    /\ todos[t].order = todos[x].order + 1

\* C13: in every reachable state each user's stored refresh-token list holds
\* at most 5 entries, and a step that drops entries to respect that limit
\* drops the oldest ones: the login leaves the last 5 of the stored list
\* with its token appended, the trim of /refresh the last 5 of the stored list.
C13_KeepsLastFive ==
  [][\A u \in Users :
       /\ Len(refreshTokens'[u]) <= KeepTokens
       /\ \A p \in Procs :
            /\ ( /\ pc[p] = "loginSave" /\ pc'[p] = "idle" /\ req[p].uid = u
                 /\ refreshTokens'[u] # refreshTokens[u] )
               => refreshTokens'[u] = LastTokens(Append(refreshTokens[u], generateTokens(u)))
            /\ ( pc[p] = "refreshTrim" /\ pc'[p] = "idle" /\ req[p].uid = u )
               => refreshTokens'[u] = LastTokens(refreshTokens[u])]_vars

\* C14: a POST /refresh whose cookie holds a token that fails verification
\* is answered with status 401 and a cleared cookie, and neither its first
\* step nor its response changes a stored refresh-token list.
C14_BadTokenRefused ==
  [][\A p \in Procs :
       /\ ( /\ pc[p] = "idle" /\ pc'[p] # "idle"
            /\ req'[p].op = "refresh" /\ ~Verifies(req'[p].tok) )
          => /\ pc'[p] = "refreshFailed"
             /\ req'[p].status = 401 /\ req'[p].cleared
             /\ refreshTokens' = refreshTokens
       /\ ( pc[p] = "refreshFailed" /\ pc'[p] # pc[p] )
          => (pc'[p] = "idle" /\ refreshTokens' = refreshTokens)]_vars

\* C15: a run of the timer sends token_expired once to every connected
\* socket whose stored expiry has passed, and to no other, and disconnects
\* it; no connection is sent more than one token_expired, and no connection
\* is connected longer than one interval of the timer after its expiry.
C15_SweepDisconnectsExpired ==
  [][/\ \A c \in Conns :
          /\ ( /\ now = nextSweep /\ nextSweep' # nextSweep
               /\ conn[c].state = "active" /\ conn[c].tokenExp <= now )
             => /\ conn'[c].state = "closed" /\ conn'[c].notices = 1
                /\ <<c, "token_expired">> \in delivered'
          /\ <<c, "token_expired">> \in delivered'
             => (conn[c].state = "active" /\ conn[c].tokenExp <= now /\ conn[c].notices = 0)
          /\ conn'[c].notices <= 1
          /\ conn'[c].state = "active" => now' - conn'[c].tokenExp <= SweepInterval]_vars

\* C16: a handshake goes on to the lookup of the user only with a token
\* that is present, carries the server's signature and has not expired; a
\* socket becomes connected only from that lookup and only when the user of
\* its token exists and is active; and a socket that is not connected is in
\* no room and has no event handlers.
C16_HandshakeGate ==
  [][\A c \in Conns :
       /\ ( /\ conn[c].state \in {"closed", "rejected"}
            /\ conn'[c].state \notin {"closed", "rejected"} )
          => /\ conn'[c].state = "handshake"
             /\ conn'[c].tok # NoAccess /\ conn'[c].tok.signed /\ conn'[c].tok.exp > now
       /\ ( conn[c].state # "active" /\ conn'[c].state = "active" )
          => /\ conn[c].state = "handshake"
             /\ conn[c].tok.uid \in registered /\ conn[c].tok.uid \notin inactive
             /\ conn'[c].userId = conn[c].tok.uid
       /\ conn'[c].state # "active"
          => (conn'[c].room = <<>> /\ ~conn'[c].handlers)]_vars

\* C16, witness: a handshake was refused because the user of its token,
\* who has another socket connected, has deleted the account, and another
\* because its token has expired
C16_Witness ==
  \E c, d \in Conns :
    /\ registered = Users
    /\ conn[c].state = "rejected" /\ conn[c].error = "Invalid token or user deactivated"
    /\ conn[d].state = "rejected" /\ conn[d].error = "Token expired"
    /\ inactive # {}

\* the connected sockets of the user of connection c, c itself left out
Siblings(c) ==
  {d \in Conns \ {c} : conn[d].state = "active" /\ conn[d].userId = conn[c].userId}

\* C17: when a socket sends todo_created, todo_updated, todo_deleted or
\* todos_bulk_updated and the payload has no userId, or one that differs
\* from the user the socket is authenticated as, the server emits nothing.
C17_RelayOnlyOwnEvents ==
  [][( /\ received'.event \in MutationEvents
       /\ ( received'.owner = "none"
            \/ received'.owner # conn[received'.from].userId ) )
     => (delivered' = {} /\ conn' = conn)]_vars

\* C17, witness: a socket has sent a mutation event in the name of another
\* user, who has a socket connected, as has the sender on another socket
C17_Witness ==
  /\ received.event \in MutationEvents
  /\ received.owner # "none" /\ received.owner # conn[received.from].userId
  /\ \E d \in Conns : conn[d].state = "active" /\ conn[d].userId = received.owner
  /\ Siblings(received.from) # {}
  /\ delivered = {}

\* C18: an event that is relayed (a mutation event that names the sender's
\* user, or a typing indicator) is emitted to every other connected socket
\* of the sender's user and to no other socket: not to the sender, not to a
\* socket of a different user.
C18_RelayToSiblings ==
  [][( \/ received'.event \in TypingEvents
       \/ /\ received'.event \in MutationEvents
          /\ received'.owner = conn[received'.from].userId )
     => /\ {x[1] : x \in delivered'} = Siblings(received'.from)
        /\ \A x \in delivered' :
             x[2] = ( IF received'.event = "typing_start" THEN "user_typing"
                      ELSE IF received'.event = "typing_stop" THEN "user_stopped_typing"
                      ELSE received'.event )]_vars

\* C18, witness: the user of the sender has a second socket, which got the
\* event, and another user has a socket, which did not
C18_Witness ==
  \E d, x \in Conns :
    /\ received.event \in MutationEvents \cup TypingEvents
    /\ d \in Siblings(received.from)
    /\ conn[x].state = "active" /\ conn[x].userId # conn[received.from].userId
    /\ delivered = {<<d, received.event>>} \/ delivered = {<<d, "user_typing">>}

\* C19: when a connected socket sends refresh_token with a token that
\* verifies, its stored expiry becomes that token's expiry, it is sent
\* token_refreshed and nothing else and stays connected as it was; with a
\* token that does not verify (absent, other signature, expired) it is sent
\* token_refresh_failed and nothing else and is disconnected.
C19_SocketRefresh ==
  [][received'.event = "refresh_token"
     => LET c == received'.from
            t == received'.tok
        IN  IF t # NoAccess /\ t.signed /\ t.exp > now
            THEN /\ conn'[c] = [conn[c] EXCEPT !.tokenExp = t.exp]
                 /\ conn'[c].state = "active"
                 /\ delivered' = {<<c, "token_refreshed">>}
            ELSE /\ conn'[c].state = "closed" /\ ~conn'[c].handlers /\ conn'[c].room = <<>>
                 /\ delivered' = {<<c, "token_refresh_failed">>}]_vars

\* C19, witness: after the run of the timer at second 60, a socket has
\* presented a token of the server that has expired, was sent
\* token_refresh_failed and is disconnected, while the other socket is
\* connected with an expiry still ahead
C19_Witness ==
  \E c \in Conns :
    /\ conn[c].state = "active" /\ conn[c].tokenExp = SweepInterval + 1
    /\ now = SweepInterval /\ nextSweep > now
    /\ received.event = "refresh_token" /\ received.from # c
    /\ received.tok.signed /\ received.tok.exp <= now
    /\ conn[received.from].state = "closed"
    /\ delivered = {<<received.from, "token_refresh_failed">>}

\* the stored records
Stored == <<todos, registered, refreshTokens, inactive>>

\* C20: every request to a router behind authenticateToken passes the
\* middleware first; it reaches its handler only with a token that is
\* present, signed by the server and not expired, and whose user exists
\* and is active when the middleware looks the user up; any other request
\* is answered 401, an expired token with "Token expired", a token with
\* another signature with "Invalid token"; and no step of the middleware
\* changes a stored record.
C20_Gate ==
  [][\A p \in Procs :
       /\ ( pc[p] = "idle" /\ pc'[p] # "idle" )
          => LET t == req'[p].bearer
             IN  IF t = NoAccess \/ ~t.signed \/ t.exp <= now
                 THEN /\ pc'[p] = "denied" /\ req'[p].status = 401
                      /\ t # NoAccess /\ ~t.signed => req'[p].message = "Invalid token"
                      /\ t.signed => req'[p].message = "Token expired"
                 ELSE pc'[p] = "authFind"
       /\ ( pc[p] = "authFind" /\ pc'[p] # pc[p] )
          => LET u == req[p].bearer.uid
             IN  IF u \in registered /\ u \notin inactive
                 THEN pc'[p] = "authed" /\ req'[p].uid = u
                 ELSE pc'[p] = "denied" /\ req'[p].status = 401
       /\ ( pc'[p] \notin {"idle", "authFind", "denied", "authed"} /\ pc[p] # pc'[p] )
          => pc[p] = "authed"
       /\ ( pc'[p] = "authed" /\ pc[p] # pc'[p] ) => pc[p] = "authFind"
       /\ ( pc[p] \in {"idle", "authFind", "denied"} /\ pc'[p] # pc[p] )
          => Stored' = Stored]_vars

\* C20, witness: a user has created a todo and deleted the account, and a
\* later request with the same kind of token, signed and not expired, is
\* refused at the lookup of the user
C20_Witness ==
  \E p \in Procs, t \in TodoIds :
    /\ pc[p] = "denied" /\ req[p].status = 401
    /\ req[p].message = "Invalid token or user deactivated"
    /\ req[p].bearer.signed /\ req[p].bearer.exp > now
    /\ req[p].bearer.uid \in inactive
    /\ Owned(todos, t, req[p].bearer.uid)

\* a step of a request of user u in slot p
StepOf(p, u) == pc'[p] # pc[p] /\ (req[p].uid = u \/ req'[p].uid = u)

\* C22: the owner of a todo never changes after creation: the save of
\* POST / stores the caller as the userId of the new todo, and no step of
\* any request changes the userId of a todo that exists before and after it.
C22_OwnerNeverChanges ==
  [][\A t \in TodoIds :
       /\ (~Exists(todos, t) /\ Exists(todos', t))
          => \E p \in Procs : pc[p] = "createSave" /\ todos'[t].userId = req[p].uid
       /\ (Exists(todos, t) /\ Exists(todos', t))
          => todos'[t].userId = todos[t].userId]_vars

\* the todos the step changes are todos of user u (or absent) before it
\* and todos of user u (or absent) after it
ChangesOnlyOf(u) ==
  \A t \in TodoIds :
    \/ todos'[t] = todos[t]
    \/ /\ ~Exists(todos, t) \/ todos[t].userId = u
       /\ ~Exists(todos', t) \/ todos'[t].userId = u

\* C21: no request of a user returns, changes or deletes a todo of another
\* user: every step changes the todos of one user only, a step of a
\* request of user u changes only todos that are u's before and after it,
\* and the response of a read carries only todos of the caller.
C21_UsersIsolated ==
  [][/\ \E u \in Users : ChangesOnlyOf(u)
     /\ \A p \in Procs, u \in Users :
          StepOf(p, u)
          => /\ ChangesOnlyOf(u)
             /\ pc'[p] = "replied" => \A t \in req'[p].found : Owned(todos, t, u)]_vars

\* the step in which slot p answers a request `op`
Answers(p, op) == pc[p] = "idle" /\ pc'[p] = "replied" /\ req'[p].op = op

\* C23: POST /auth/logout clears the cookie and removes the presented token,
\* and nothing else, from the list of the user that stores it: the other
\* entries of that list keep their sequence, the lists of the other users
\* and the users are unchanged, and without a cookie nothing stored changes.
C23_LogoutRemovesOne ==
  [][\A p \in Procs :
       Answers(p, "logout")
       => /\ req'[p].cleared /\ req'[p].status = 200
          /\ \A u \in Users :
               /\ refreshTokens'[u] = SelectSeq(refreshTokens[u], LAMBDA x : x # req'[p].tok)
               /\ u # req'[p].tok.uid => refreshTokens'[u] = refreshTokens[u]
          /\ req'[p].tok = NoToken => refreshTokens' = refreshTokens
          /\ UNCHANGED <<registered, inactive, todos, issued>>]_vars

\* C23, witness: the request has been answered; the presented token, signed
\* in the second second, is stored no more, while its user's list still
\* holds tokens of the first second and the other user's list holds one
C23_Witness ==
  \E p \in Procs, u \in Users :
    /\ pc[p] = "replied" /\ req[p].op = "logout" /\ req[p].cleared
    /\ req[p].tok \in issued /\ req[p].tok.iat = 1
    /\ Len(refreshTokens[req[p].tok.uid]) >= 2
    /\ \A i \in 1..Len(refreshTokens[req[p].tok.uid]) :
         refreshTokens[req[p].tok.uid][i].iat = 0
    /\ u # req[p].tok.uid /\ refreshTokens[u] # <<>>

\* C24: every POST /auth/logout-all with a cookie clears the cookie; when
\* the token verifies, stored or not, the list of the user it names is
\* empty afterwards, and when it does not verify no list changes; the lists
\* of the other users never change.
C24_LogoutAllClears ==
  [][\A p \in Procs :
       (Answers(p, "logoutAll") /\ req'[p].tok # NoToken)
       => /\ req'[p].cleared
          /\ IF req'[p].tok \in issued
             THEN /\ refreshTokens'[req'[p].tok.uid] = <<>>
                  /\ \A u \in Users \ {req'[p].tok.uid} : refreshTokens'[u] = refreshTokens[u]
             ELSE refreshTokens' = refreshTokens]_vars

\* C25: PATCH /bulk-update and DELETE / are all-or-nothing: when a listed id
\* is missing or is not a todo of the caller, no step of the request changes
\* a todo; otherwise the step of a bulk delete deletes every listed todo and
\* a step of a bulk-update leaves every listed todo with its new order.
C25_BulkAllOrNothing ==
  [][\A p \in Procs :
       /\ (Answers(p, "bulkDelete") /\ req'[p].listed # {})
          => IF \E t \in req'[p].listed : ~Owned(todos, t, req'[p].uid)
             THEN todos' = todos
             ELSE \A t \in TodoIds :
                    todos'[t] = IF t \in req'[p].listed THEN NoTodo ELSE todos[t]
       /\ ( /\ pc[p] = "bulkWrite" \/ pc'[p] = "bulkWrite"
            /\ pc'[p] # pc[p] )
          => LET r == IF pc[p] = "bulkWrite" THEN req[p] ELSE req'[p]
             IN  IF \E i \in 1..Len(r.ups) : ~Owned(todos, r.ups[i].id, r.uid)
                 THEN todos' = todos
                 ELSE \A i \in 1..Len(r.ups) : todos'[r.ups[i].id].order = r.ups[i].order]_vars

\* C26: a POST /auth/register whose password is shorter than 6 characters
\* is answered 400 in its first step, in which no user is created, no token
\* is signed and no refresh token is stored; and it never goes on.
C26_ShortPasswordRefused ==
  [][\A p \in Procs :
       /\ (pc[p] = "idle" /\ pc'[p] # "idle" /\ req'[p].op = "register" /\ req'[p].len < 6)
          => /\ pc'[p] = "replied" /\ req'[p].status = 400
             /\ UNCHANGED <<registered, refreshTokens, issued, inactive>>
       /\ (req'[p].op = "register" /\ req'[p].len < 6) => pc'[p] = "replied"]_vars

\* C26, witness: the registration of a user that does not exist, with a
\* password of 5 characters, has been refused, while another user exists
C26_Witness ==
  \E p \in Procs :
    /\ pc[p] = "replied" /\ req[p].op = "register" /\ req[p].status = 400
    /\ req[p].len = 5
    /\ req[p].uid \notin registered
    /\ registered # {} /\ refreshTokens[req[p].uid] = <<>>

\* no two todos of a partition of user u share an order
Unique(s, u) ==
  \A c \in Cats : \A x, y \in Partition(s, u, c) : x # y => s[x].order # s[y].order
\* every partition of user u has unique orders that are exactly 1..N
Contiguous(s, u) ==
  /\ Unique(s, u)
  /\ \A c \in Cats : Orders(s, Partition(s, u, c)) = 1..Cardinality(Partition(s, u, c))

\* C27: moveToPosition preserves the ordering invariant: when every
\* partition of the user has unique orders contiguous from 1, the commit of
\* a moveToPosition(t, user, pos), t being any todo of the user, archived or
\* not, leaves every partition of the user so.
C27_MovePreservesOrdering ==
  [][\A p \in Procs :
       ( /\ pc[p] = "moveWrite" /\ pc'[p] = "moveEnd" /\ req'[p].status = 200
         /\ Contiguous(todos, req[p].uid) )
       => Contiguous(todos', req[p].uid)]_vars

\* C28: reorder preserves the uniqueness of the orders: when no two todos
\* of a partition of the user share an order, the commit of a reorder that
\* has passed validation leaves no two todos of a partition of the user
\* with the same order.
C28_ReorderPreservesUnique ==
  [][\A p \in Procs :
       ( /\ pc[p] = "reorderWrite" /\ pc'[p] = "reorderEnd" /\ req'[p].status = 200
         /\ Unique(todos, req[p].uid) )
       => Unique(todos', req[p].uid)]_vars

\* the step in which the moveToPosition call of slot p ends: at its early
\* return or with the commit of its transaction
MoveEnds(p) ==
  pc[p] \in {"idle", "moveWrite"} /\ pc'[p] = "moveEnd" /\ req'[p].op = "move"

\* C29: a moveToPosition(t, user, pos) for a todo t of the user and a pos
\* greater than the number N of non-archived todos of t's category is not
\* an error: it succeeds, t then comes after every other todo of the
\* partition, the other todos keep their relative sequence, and the orders
\* of the partition are exactly 1..N.
C29_MoveBeyondEnd ==
  [][\A p \in Procs :
       LET t == req'[p].tid
           S == Partition(todos, req'[p].uid, todos[t].category)
       IN  ( /\ MoveEnds(p)
             /\ Exists(todos, t) /\ todos[t].userId = req'[p].uid
             /\ req'[p].pos > Cardinality(S) )
           => /\ req'[p].status = 200
              /\ \A x \in S \ {t} : todos'[x].order < todos'[t].order
              /\ \A x, y \in S \ {t} :
                   todos[x].order < todos[y].order => todos'[x].order < todos'[y].order
              /\ Partition(todos', req'[p].uid, todos[t].category) = S
              /\ Orders(todos', S) = 1..Cardinality(S)]_vars

\* C30: a moveToPosition(t, user, pos) for a todo t of the user whose order
\* is pos ends successfully at once and writes nothing, then and in the
\* rest of the call, whatever orders the partition holds.
C30_MoveToOwnOrderWritesNothing ==
  [][\A p \in Procs :
       /\ ( /\ pc[p] = "idle" /\ pc'[p] # "idle" /\ req'[p].op = "move"
            /\ Exists(todos, req'[p].tid) /\ todos[req'[p].tid].userId = req'[p].uid
            /\ todos[req'[p].tid].order = req'[p].pos )
          => (pc'[p] = "moveEnd" /\ req'[p].status = 200 /\ todos' = todos)
       /\ (pc[p] = "moveEnd" /\ pc'[p] # "moveEnd") => todos' = todos]_vars

\* C30, witness: the call has ended for a todo whose order is the position
\* asked for, in a partition of three todos where another todo has the same
\* order and no todo has order 1
C30_Witness ==
  \E p \in Procs, x \in TodoIds :
    LET t == req[p].tid
        S == Partition(todos, req[p].uid, todos[t].category)
    IN  /\ pc[p] = "moveEnd" /\ req[p].status = 200
        /\ Exists(todos, t) /\ todos[t].order = req[p].pos
        /\ t \in S /\ x \in S /\ x # t /\ todos[x].order = todos[t].order
        /\ Cardinality(S) = MaxTodos
        /\ 1 \notin Orders(todos, S)

\* todos x and y are in the same partition with the same order
SameOrdinal(s, x, y) ==
  /\ x # y /\ Exists(s, x) /\ Exists(s, y)
  /\ s[x].userId = s[y].userId /\ s[x].category = s[y].category
  /\ ~s[x].isArchived /\ ~s[y].isArchived
  /\ s[x].order = s[y].order

\* C31: two creations of a user in a category that both read the next order
\* before either saves store the same order; and while no request changes
\* the order a todo was created with, this is the only way two todos of a
\* partition come to share an order: the step that makes them share it is
\* the save of a creation, and the other todo was saved after that
\* creation had read.
C31_OnlyRacingCreatesCollide ==
  [][/\ \A p, q \in Procs :
          ( /\ p # q /\ pc[p] = "createSave" /\ pc'[p] = "idle" /\ pc[q] = "createSave"
            /\ req[p].uid = req[q].uid /\ req[p].cat = req[q].cat
            /\ req[q].tid = req[p].tid /\ req[q].ord = req[p].ord )
          => todos'[nextId].order = req[q].ord
     /\ \A x, y \in TodoIds :
          (x < y /\ SameOrdinal(todos', x, y) /\ ~SameOrdinal(todos, x, y))
          => \E p \in Procs :
               /\ pc[p] = "createSave" /\ pc'[p] = "idle"
               /\ y = nextId /\ x >= req[p].tid]_vars

\* the call of normalizeOrderValues in slot p ends with this step
NormalizeEnds(p) ==
  /\ req[p].op = "normalize" /\ pc[p] # "replied" /\ pc'[p] = "replied"

\* C32: normalize(user, category), no other writer: the non-archived todos
\* of that user and category are found in the sequence of their order, the
\* earlier created first among equal orders; when the call ends they carry
\* 1..N in that sequence; no step of the call changes any other todo.
C32_NormalizeRenumbers ==
  [][\A p \in Procs :
       /\ ( pc[p] = "idle" /\ req'[p].op = "normalize" /\ req'[p].cat # "all" )
          => LET q == req'[p].ids
             IN  /\ {q[i] : i \in 1..Len(q)} = Partition(todos, req'[p].uid, req'[p].cat)
                 /\ \A i, j \in 1..Len(q) :
                      i < j => \/ todos[q[i]].order < todos[q[j]].order
                               \/ /\ todos[q[i]].order = todos[q[j]].order
                                  /\ q[i] < q[j]
       /\ ( req[p].op = "normalize" /\ req[p].cat # "all" )
          => LET q == req[p].ids
             IN  /\ \A t \in TodoIds \ {q[i] : i \in 1..Len(q)} : todos'[t] = todos[t]
                 /\ \A i \in 1..Len(q) :
                      todos'[q[i]] = [todos[q[i]] EXCEPT !.order = todos'[q[i]].order]
                 /\ NormalizeEnds(p) => \A i \in 1..Len(q) : todos'[q[i]].order = i]_vars

\* a call with a category ends on a partition of two todos that were not
\* in the sequence of their creation, beside a todo of the other user
C32_Witness ==
  \E p \in Procs :
    /\ pc[p] = "replied" /\ req[p].op = "normalize" /\ req[p].cat = "general"
    /\ Len(req[p].ids) = 2
    /\ \A i \in 1..2 : todos[req[p].ids[i]].order = i
    /\ req[p].ids[1] > req[p].ids[2]
    /\ \E t \in TodoIds : Exists(todos, t) /\ todos[t].userId = "u2"

\* C33: normalize(user) without a category: when the call ends every
\* partition of the user has unique orders contiguous from 1.
C33_NormalizeAllRepairs ==
  [][\A p \in Procs :
       (NormalizeEnds(p) /\ req[p].cat = "all") => Contiguous(todos', req[p].uid)]_vars

\* C34: in every reachable state a todo has a completion timestamp exactly
\* when it is completed and an archive timestamp exactly when it is
\* archived, whichever endpoint changed the flag.
C34_TimestampsFollowFlags ==
  \A t \in TodoIds :
    Exists(todos, t) => /\ todos[t].completedAt = todos[t].completed
                        /\ todos[t].archivedAt = todos[t].isArchived

\* C35: in every reachable state a todo that has a reminder date and a due
\* date has its reminder date on or before its due date.
C35_ReminderBeforeDue ==
  \A t \in TodoIds :
    (Exists(todos, t) /\ todos[t].reminderDate # 0 /\ todos[t].dueDate # 0)
      => todos[t].reminderDate <= todos[t].dueDate

\* C36: a wipe is final for the requests in flight: once a /logout-all or
\* a reuse-detection wipe of a user has completed and every /refresh of
\* that user that was in progress then has finished, the stored list of
\* the user is empty.
C36_WipeIsFinal ==
  \A u \in Users :
    (Wiped(u) /\ \A p \in Procs : ~Refreshing(p)) => refreshTokens[u] = <<>>

\* C37: a refresh_token event whose access token verifies but was issued
\* to another user than the one the connection is authenticated as does
\* not change the stored expiry of the connection, nor its user id or its
\* room.
C37_ForeignTokenExtendsNothing ==
  [][\A c \in Conns :
       ( /\ received' = Event(c, "refresh_token", "none", received'.tok)
         /\ conn[c].handlers /\ conn' # conn
         /\ received'.tok # NoAccess /\ jwtVerify(received'.tok) = "ok"
         /\ received'.tok.uid # conn[c].userId )
       => /\ conn'[c].tokenExp = conn[c].tokenExp
          /\ conn'[c].userId = conn[c].userId
          /\ conn'[c].room = conn[c].room]_vars

\* the token was presented in the place of the other class: a refresh
\* token as an access token, an access token as a refresh cookie
IsRefreshToken(t) == t.exp >= RefreshLife
IsAccessToken(t) == "exp" \in DOMAIN t

\* C38: the two token classes are not interchangeable: a refresh token
\* passes neither the bearer check nor the socket handshake and a
\* refresh_token event that carries one extends nothing and ends the
\* connection; an access token presented to /auth/refresh or to
\* /auth/logout-all is refused and no stored list changes.
C38_ClassesNotInterchangeable ==
  [][/\ \A p \in Procs :
          /\ (pc[p] = "idle" /\ pc'[p] = "authFind") => ~IsRefreshToken(req'[p].bearer)
          /\ ( /\ pc[p] = "idle" /\ req'[p].op \in {"refresh", "logoutAll"}
               /\ req'[p].tok # NoToken /\ IsAccessToken(req'[p].tok) )
             => /\ pc'[p] \in {"refreshFailed", "replied"}
                /\ req'[p].status >= 400
                /\ refreshTokens' = refreshTokens
     /\ \A c \in Conns :
          /\ (conn[c].state # "handshake" /\ conn'[c].state = "handshake")
             => ~IsRefreshToken(conn'[c].tok)
          /\ ( /\ received' = Event(c, "refresh_token", "none", received'.tok)
               /\ conn[c].handlers /\ conn' # conn
               /\ IsRefreshToken(received'.tok) )
             => conn'[c] = NoConn /\ delivered' = {<<c, "token_refresh_failed">>}]_vars

\* /auth/logout-all has refused a valid access token presented as the
\* cookie, the list of its user holds a token, and the handshake of a
\* connection was refused
C38_Witness ==
  \E p \in Procs :
    /\ pc[p] = "replied" /\ req[p].op = "logoutAll"
    /\ IsAccessToken(req[p].tok) /\ req[p].tok.signed /\ req[p].tok.exp > now
    /\ refreshTokens[req[p].tok.uid] # <<>>
    /\ conn["c1"].state = "rejected" /\ conn["c1"].error = "Invalid token"

====
